---- MODULE Spec2Model ----
(***************************************************************************)
(* Summary-request orchestration of the Slack summary bot                  *)
(* (functions/src/routes/actions.ts, functions/src/routes/commands.ts,     *)
(* functions/src/services/*.ts, functions/src/utils/*.ts).                 *)
(*                                                                         *)
(* One trigger (the summarize_thread shortcut or the /summary-today slash  *)
(* command) is followed from the invocation of its handler to the end of   *)
(* the background task the handler starts after ack().  A state is the     *)
(* task suspended at an await: the last element of calls is the call       *)
(* it waits for.  An action is the settlement of that call followed by the *)
(* synchronous code that runs up to the next await.                        *)
(*                                                                         *)
(* ServiceSpec follows one direct call of a service method                 *)
(* (generateSummary, getTodayMessages, formatSummaryResponse) over all its *)
(* arguments and all the results of the platform calls it makes.           *)
(* RequestSpec follows one HTTP request through the middleware and routes  *)
(* of the entry point (functions/src/index.ts), PairSpec two triggers      *)
(* whose background tasks overlap in one process, and FairSpec is Spec     *)
(* with every pending call eventually settled.                             *)
(*                                                                         *)
(* Strings the code searches or concatenates (error messages, notices,     *)
(* posted texts) are sequences of tokens; includes() is token membership   *)
(* and + is \o.  Message texts are atomic strings, "" being falsy.         *)
(***************************************************************************)
EXTENDS Integers, Sequences, FiniteSets, TLC

VARIABLES other, req, res, trigger, shortcut, command, nodeEnv, pc, handler, task, calls, local,
          logged

vars == <<other, req, res, trigger, shortcut, command, nodeEnv, pc, handler, task, calls, local,
          logged>>

----------------------------------------------------------------------------
(* Bounds *)

MaxMsgs == 2
MaxChannels == 2

----------------------------------------------------------------------------
(* Values *)

NoVal == "<undefined>"
\* no instant
NoTime == -1

\* no request body, no request, no response written yet
NoRequestBody == [present |-> FALSE, type |-> NoVal, challenge |-> NoVal]
NoRequest == [method |-> NoVal, path |-> NoVal, body |-> NoRequestBody, signed |-> FALSE]
\* no second trigger is being handled
NoTrigger == [trigger |-> NoVal]
NoReply == [sent |-> FALSE, status |-> 0, type |-> NoVal, body |-> NoVal, onFinish |-> FALSE]

Truthy(s) == s /= NoVal /\ s /= ""

SeqsUpTo(S, n) == UNION {[1..k -> S] : k \in 0..n}

\* channel ids and names are sequences of characters (the command argument is parsed)
NoChannel == <<>>
ChannelC1 == <<"C", "1">>
ChannelC2 == <<"C", "2">>
Channels == {ChannelC1, ChannelC2}
Users == {"U1"}
MessageTs == "1.5"
ThreadTsValues == {NoVal, "1.0", MessageTs}
InlineTexts == {NoVal, "", "hello"}
ShortcutTypes == {"message_action", "shortcut"}
MsgTexts == {"", "a", "b"}

Err(m) == [isError |-> TRUE, message |-> m]
\* a thrown value that is not an Error
NonError == [isError |-> FALSE, message |-> <<>>]
\* nothing was caught
NoError == [isError |-> FALSE, message |-> <<"<none>">>]

\* what a notice (chat.postEphemeral, respond) or ack can reject with
SendThrown == {Err(<<"An API error occurred: ", "not_in_channel">>), NonError}

\* what an awaited fetch, completion or post can reject with
Thrown == {Err(<<"An API error occurred: ", "not_in_channel">>),
           Err(<<"An API error occurred: ", "invalid_auth">>),
           Err(<<"An API error occurred: ", "missing_scope">>),
           Err(<<"You exceeded your current ", "quota">>),
           Err(<<"boom">>),
           NonError}

Includes(m, sub) == \E i \in DOMAIN m : m[i] = sub

----------------------------------------------------------------------------
(* Results of the platform calls *)

Throws(e) == [threw |-> TRUE, err |-> e, ok |-> FALSE, error |-> NoVal,
              hasMessages |-> FALSE, messages |-> <<>>]
Returns(ok, error, has, msgs) ==
    [threw |-> FALSE, err |-> NonError, ok |-> ok, error |-> error,
     hasMessages |-> has, messages |-> msgs]

Message(t) == [text |-> t]

MessageLists == {[i \in DOMAIN s |-> Message(s[i])] : s \in SeqsUpTo(MsgTexts, MaxMsgs)}

\* conversations.replies / conversations.history
FetchResults ==
    {Throws(e) : e \in Thrown}
    \cup {Returns(FALSE, "channel_not_found", FALSE, <<>>), Returns(FALSE, NoVal, FALSE, <<>>),
          Returns(TRUE, NoVal, FALSE, <<>>)}
    \cup {Returns(TRUE, NoVal, TRUE, m) : m \in MessageLists}

\* chat.postEphemeral, respond, ack
SendResults == {Throws(e) : e \in SendThrown} \cup {Returns(TRUE, NoVal, FALSE, <<>>)}

\* the error notices: what they reject with is only logged
ErrorNoticeResults == {Throws(Err(<<"boom">>)), Returns(TRUE, NoVal, FALSE, <<>>)}

\* chat.postMessage: ts is set on success
PostReturns(ok, error, ts) ==
    [threw |-> FALSE, err |-> NonError, ok |-> ok, error |-> error,
     hasMessages |-> FALSE, messages |-> <<>>, ts |-> ts]
PostThrows(e) ==
    [threw |-> TRUE, err |-> e, ok |-> FALSE, error |-> NoVal,
     hasMessages |-> FALSE, messages |-> <<>>, ts |-> NoVal]
PostResults ==
    {PostThrows(e) : e \in SendThrown}
    \cup {PostReturns(TRUE, NoVal, "9.9"), PostReturns(TRUE, NoVal, NoVal),
          PostReturns(FALSE, "not_in_channel", NoVal)}

\* chat.completions.create: the content of choices[0].message.  The request asks for
\* response_format json_object, so a body that parses is a JSON object; its fields may
\* be missing (NoVal) or empty.
NotArray == <<"<not an array>">>
Topics == {NoVal, "", "Launch Plan"}
Summaries == {NoVal, "", "Team decided to ship Friday."}
ActionItemValues == {NotArray, <<>>, <<"Update changelog", "Notify support">>}

JsonContent(t, s, a) ==
    [present |-> TRUE, empty |-> FALSE, json |-> TRUE, topic |-> t, summary |-> s, actionItems |-> a]
\* a body JSON.parse rejects
NotJsonContent ==
    [present |-> TRUE, empty |-> FALSE, json |-> FALSE, topic |-> NoVal, summary |-> NoVal,
     actionItems |-> NotArray]
\* the body is the empty string
EmptyContent ==
    [present |-> TRUE, empty |-> TRUE, json |-> FALSE, topic |-> NoVal, summary |-> NoVal,
     actionItems |-> NotArray]
\* no choice, no message or a null content
NoContent ==
    [present |-> FALSE, empty |-> FALSE, json |-> FALSE, topic |-> NoVal, summary |-> NoVal,
     actionItems |-> NotArray]
Contents == {JsonContent(t, s, a) : t \in Topics, s \in Summaries, a \in ActionItemValues}
            \cup {NotJsonContent, EmptyContent, NoContent}

CompletionResults ==
    {[threw |-> TRUE, err |-> e, content |-> NoContent] : e \in Thrown}
    \cup {[threw |-> FALSE, err |-> NonError, content |-> c] : c \in Contents}

\* the argument of /summary-today, a string of characters
CommandTexts == {<<>>, <<" ">>, <<"g">>, <<"#", "g">>, <<" ", "#", "g", " ">>, <<"G">>,
                 ChannelC1, <<"#", "C", "2">>, <<"C", "g">>, <<"#", "#", "g">>}

NodeEnvs == {"production", "development"}

\* conversations.list
ChannelEntry(id, name) == [id |-> id, name |-> name]
ChannelEntries == {ChannelEntry(ChannelC1, <<"g">>), ChannelEntry(ChannelC2, <<"g">>),
                   ChannelEntry(ChannelC2, <<"C", "g">>), ChannelEntry(NoChannel, <<"#", "g">>)}
ListResults ==
    {[threw |-> TRUE, err |-> e, hasChannels |-> FALSE, channels |-> <<>>] : e \in Thrown}
    \cup {[threw |-> FALSE, err |-> NonError, hasChannels |-> FALSE, channels |-> <<>>]}
    \cup {[threw |-> FALSE, err |-> NonError, hasChannels |-> TRUE, channels |-> c] :
             c \in SeqsUpTo(ChannelEntries, MaxChannels)}

\* users.info
NoTz == 0
FlowTzOffsets == {-43200, 19800}
Nows == {1700000000}
UserInfoResults ==
    {[threw |-> TRUE, ok |-> FALSE, hasUser |-> FALSE, tz_offset |-> NoTz],
     [threw |-> FALSE, ok |-> FALSE, hasUser |-> FALSE, tz_offset |-> NoTz],
     [threw |-> FALSE, ok |-> TRUE, hasUser |-> FALSE, tz_offset |-> NoTz],
     [threw |-> FALSE, ok |-> TRUE, hasUser |-> TRUE, tz_offset |-> NoTz]}
    \cup {[threw |-> FALSE, ok |-> TRUE, hasUser |-> TRUE, tz_offset |-> z] : z \in FlowTzOffsets}

\* conversations.info
InfoResults ==
    {[threw |-> TRUE, err |-> e, hasChannel |-> FALSE, name |-> <<>>] : e \in Thrown}
    \cup {[threw |-> FALSE, err |-> NonError, hasChannel |-> FALSE, name |-> <<>>],
          [threw |-> FALSE, err |-> NonError, hasChannel |-> TRUE, name |-> <<>>],
          [threw |-> FALSE, err |-> NonError, hasChannel |-> TRUE, name |-> <<"g">>]}

\* no completion and no user lookup has settled yet
NoResponse == [threw |-> FALSE, err |-> NoError, content |-> NoContent]
NoUserInfo == [threw |-> FALSE, ok |-> FALSE, hasUser |-> FALSE, tz_offset |-> NoTime]

\* the completion outcomes a trigger is followed through
FlowContents == {JsonContent("Launch Plan", "Team decided to ship Friday.",
                             <<"Update changelog", "Notify support">>),
                 JsonContent(NoVal, NoVal, NotArray), NotJsonContent, EmptyContent, NoContent}
FlowCompletionResults ==
    {[threw |-> TRUE, err |-> e, content |-> NoContent] : e \in Thrown}
    \cup {[threw |-> FALSE, err |-> NonError, content |-> c] : c \in FlowContents}

----------------------------------------------------------------------------
(* Calls issued to the platform *)

Call(op, channel, user, ts, text, mode) ==
    [op |-> op, channel |-> channel, user |-> user, ts |-> ts, text |-> text,
     mode |-> mode, oldest |-> NoTime, res |-> "pending"]

AckCall == Call("ack", NoChannel, NoVal, NoVal, <<>>, "n/a")
\* the notices are sent with chat.postMessage instead of chat.postEphemeral
PostEphemeralInChannel(channel, user, text) ==
    Call("chat.postMessage", channel, user, NoVal, text, "public")

PostEphemeral(channel, user, text) == Call("chat.postEphemeral", channel, user, NoVal, text, "ephemeral")
\* the thread is always fetched with the selected message's own ts
RepliesOfSelectedMessage(channel, ts) ==
    Call("conversations.replies", channel, NoVal, shortcut.ts, <<>>, "n/a")
Replies(channel, ts) == Call("conversations.replies", channel, NoVal, ts, <<>>, "n/a")
HistoryOne(channel, latest) == Call("conversations.history", channel, NoVal, latest, <<>>, "n/a")
Completion(texts) == Call("chat.completions.create", NoChannel, NoVal, NoVal, texts, "n/a")
PostMessage(channel, text, threadTs) == Call("chat.postMessage", channel, NoVal, threadTs, text, "public")
\* respond() answers on the command's response_url: the invoking user in the invoking channel
Respond(text, mode) == Call("respond", command.channel_id, command.user_id, NoVal, text, mode)
ListChannels == Call("conversations.list", NoChannel, NoVal, NoVal, <<>>, "n/a")
UsersInfo(user) == Call("users.info", NoChannel, user, NoVal, <<>>, "n/a")
HistorySince(channel, oldest) ==
    [Call("conversations.history", channel, NoVal, NoVal, <<>>, "n/a") EXCEPT !.oldest = oldest]
ChannelInfo(channel) == Call("conversations.info", channel, NoVal, NoVal, <<>>, "n/a")

\* the awaited call settles
Settle(r) == [calls EXCEPT ![Len(calls)].res = r]

Last == calls[Len(calls)]

----------------------------------------------------------------------------
(* SlackService and OpenAIService: what the wrappers make of a result *)

Raised(e) == [threw |-> TRUE, err |-> e]

OrUnknown(error) == IF Truthy(error) THEN error ELSE "Unknown error"

\* SlackService.getThreadReplies: rethrows, and throws on !ok or no messages
GetThreadReplies(r) ==
    IF r.threw THEN Raised(r.err) @@ [messages |-> <<>>]
    ELSE IF ~r.ok \/ ~r.hasMessages
         THEN Raised(Err(<<"Failed to fetch thread replies: ", OrUnknown(r.error)>>)) @@ [messages |-> <<>>]
         ELSE [threw |-> FALSE, err |-> NonError, messages |-> r.messages]

\* SlackService.postMessage: rethrows, and throws on !ok or no ts
SlackPostMessage(r) ==
    IF r.threw THEN Raised(r.err)
    ELSE IF ~r.ok \/ ~Truthy(r.ts)
         THEN Raised(Err(<<"Failed to post message: ", OrUnknown(r.error)>>))
         ELSE [threw |-> FALSE, err |-> NonError]

\* messages.map(msg => msg.text), without the filter
AllTexts(msgs) == [i \in DOMAIN msgs |-> msgs[i].text]

\* messages.map(msg => msg.text).filter(Boolean)
RECURSIVE FilterTexts(_)
FilterTexts(msgs) ==
    IF msgs = <<>> THEN <<>>
    ELSE IF Truthy(Head(msgs).text)
         THEN <<Head(msgs).text>> \o FilterTexts(Tail(msgs))
         ELSE FilterTexts(Tail(msgs))

\* the extraction, keeping one copy of each text
RECURSIVE DistinctTexts(_)
DistinctTexts(texts) ==
    IF texts = <<>> THEN <<>>
    ELSE LET rest == DistinctTexts(Tail(texts)) IN
         IF \E j \in DOMAIN rest : rest[j] = Head(texts) THEN rest
         ELSE <<Head(texts)>> \o rest

extractMessageTextsDistinct(msgs) == DistinctTexts(FilterTexts(msgs))

\* utils/message-utils.ts, lines 9-13
extractMessageTexts(msgs) == FilterTexts(msgs)

\* utils/message-utils.ts: trim(), then drop one leading '#'
RECURSIVE TrimStart(_)
TrimStart(str) == IF str /= <<>> /\ Head(str) = " " THEN TrimStart(Tail(str)) ELSE str
RECURSIVE TrimEnd(_)
TrimEnd(str) ==
    IF str /= <<>> /\ str[Len(str)] = " " THEN TrimEnd(SubSeq(str, 1, Len(str) - 1)) ELSE str
Trim(str) == TrimEnd(TrimStart(str))

StartsWith(str, c) == str /= <<>> /\ Head(str) = c

\* the input is not trimmed before the leading '#' is dropped
formatChannelInputUntrimmed(channelInput) ==
    IF StartsWith(channelInput, "#") THEN Tail(channelInput) ELSE channelInput

formatChannelInput(channelInput) ==
    LET formattedChannel == Trim(channelInput) IN
    IF StartsWith(formattedChannel, "#") THEN Tail(formattedChannel) ELSE formattedChannel

formatChannelName(channelName) ==
    IF StartsWith(channelName, "#") THEN channelName ELSE <<"#">> \o channelName

getChannelSummaryHeader(channelName) ==
    <<"*Summary of today's messages in ">> \o formatChannelName(channelName) \o <<"*\n\n">>

\* SlackService.listChannels: in production a failure is rethrown, elsewhere it is an empty list
\* the failure is rethrown whatever the environment
SlackListChannelsAlwaysThrows(r) ==
    IF r.threw
    THEN [threw |-> TRUE, err |-> r.err, channels |-> <<>>,
          logs |-> <<"Error listing channels:">>]
    ELSE [threw |-> FALSE, err |-> NonError, logs |-> <<>>,
          channels |-> IF r.hasChannels THEN r.channels ELSE <<>>]

SlackListChannels(r) ==
    IF r.threw
    THEN IF nodeEnv /= "production"
         THEN [threw |-> FALSE, err |-> NonError, channels |-> <<>>,
               logs |-> <<"Error listing channels (development environment):">>]
         ELSE [threw |-> TRUE, err |-> r.err, channels |-> <<>>,
               logs |-> <<"Error listing channels:">>]
    ELSE [threw |-> FALSE, err |-> NonError, logs |-> <<>>,
          channels |-> IF r.hasChannels THEN r.channels ELSE <<>>]

\* the last channel of that name is taken instead of the first
FindLastChannel(channels, name) ==
    IF \E i \in DOMAIN channels : channels[i].name = name
    THEN CHOOSE i \in DOMAIN channels :
            /\ channels[i].name = name
            /\ \A j \in (i + 1)..Len(channels) : channels[j].name /= name
    ELSE 0

\* channels.find((c) => c.name === targetChannel): the index of the first match, 0 if none
FindChannel(channels, name) ==
    IF \E i \in DOMAIN channels : channels[i].name = name
    THEN CHOOSE i \in DOMAIN channels :
            /\ channels[i].name = name
            /\ \A j \in 1..(i - 1) : channels[j].name /= name
    ELSE 0

\* SlackService.getUserTimezone: never throws, 0 on any failure
GetUserTimezone(r) ==
    IF r.threw THEN 0
    ELSE IF ~r.ok \/ ~r.hasUser THEN 0
         ELSE IF r.tz_offset /= 0 THEN r.tz_offset ELSE 0

SecondsPerDay == 86400

\* the offset from UTC, in seconds, of the time zone the Node process runs in
\* (UTC on the hosted runtime, the machine's zone under the emulator)
ProcessTzOffsets == {0, 32400}

\* Date.prototype.setHours(0, 0, 0, 0): the instant, in seconds, at which the day
\* that contains t began in the time zone of the process
SetHoursZero(t, processTz) ==
    ((t + processTz) \div SecondsPerDay) * SecondsPerDay - processTz

\* SlackService.getTodayMessages, lines 64-72
StartOfDay(now, tzOffset, processTz) ==
    LET userLocalTime == now + tzOffset
        midnight == SetHoursZero(userLocalTime, processTz)
    IN  midnight - tzOffset

SummaryResult(t, s, a) == [topic |-> t, summary |-> s, actionItems |-> a]

NoMessagesResult == SummaryResult("No topic", "No messages to summarize.", <<>>)
ParseFailedResult == SummaryResult("Discussion", "Failed to parse the AI-generated summary.", <<>>)
NoResult == SummaryResult(NoVal, NoVal, <<>>)

\* OpenAIService.generateSummary, the guard of line 16: no completion call is made
SummaryWithoutCall(messages) == Len(messages) = 0

\* the outer catch of lines 75-78 returns the default response instead of rethrowing
GenerateSummarySwallows(r) ==
    IF r.threw THEN [threw |-> FALSE, err |-> NonError, value |-> ParseFailedResult]
    ELSE IF ~r.content.present \/ r.content.empty
         THEN [threw |-> FALSE, err |-> NonError, value |-> ParseFailedResult]
         ELSE IF ~r.content.json
              THEN [threw |-> FALSE, err |-> NonError, value |-> ParseFailedResult]
              ELSE [threw |-> FALSE, err |-> NonError,
                    value |-> SummaryResult(
                        IF Truthy(r.content.topic) THEN r.content.topic ELSE "Discussion",
                        IF Truthy(r.content.summary) THEN r.content.summary ELSE "No summary generated.",
                        IF r.content.actionItems /= NotArray THEN r.content.actionItems ELSE <<>>)]

\* the parsed fields are returned as they are, without the || defaults of lines 62-64
GenerateSummaryWithoutDefaults(r) ==
    IF r.threw THEN Raised(r.err) @@ [value |-> NoResult]
    ELSE IF ~r.content.present \/ r.content.empty
         THEN Raised(Err(<<"No content returned from OpenAI">>)) @@ [value |-> NoResult]
         ELSE IF ~r.content.json
              THEN [threw |-> FALSE, err |-> NonError, value |-> ParseFailedResult]
              ELSE [threw |-> FALSE, err |-> NonError,
                    value |-> SummaryResult(r.content.topic, r.content.summary,
                        IF r.content.actionItems /= NotArray THEN r.content.actionItems ELSE <<>>)]

\* the inner catch of lines 66-74 rethrows instead of returning the default response
GenerateSummaryParseRaises(r) ==
    IF r.threw THEN Raised(r.err) @@ [value |-> NoResult]
    ELSE IF ~r.content.present \/ r.content.empty
         THEN Raised(Err(<<"No content returned from OpenAI">>)) @@ [value |-> NoResult]
         ELSE IF ~r.content.json
              THEN Raised(Err(<<"Unexpected token in JSON">>)) @@ [value |-> NoResult]
              ELSE [threw |-> FALSE, err |-> NonError,
                    value |-> SummaryResult(
                        IF Truthy(r.content.topic) THEN r.content.topic ELSE "Discussion",
                        IF Truthy(r.content.summary) THEN r.content.summary ELSE "No summary generated.",
                        IF r.content.actionItems /= NotArray THEN r.content.actionItems ELSE <<>>)]

\* OpenAIService.generateSummary, lines 52-78, given the completion's outcome
GenerateSummary(r) ==
    IF r.threw THEN Raised(r.err) @@ [value |-> NoResult]
    ELSE IF ~r.content.present \/ r.content.empty
         THEN Raised(Err(<<"No content returned from OpenAI">>)) @@ [value |-> NoResult]
         ELSE IF ~r.content.json
              THEN [threw |-> FALSE, err |-> NonError, value |-> ParseFailedResult]
              ELSE [threw |-> FALSE, err |-> NonError,
                    value |-> SummaryResult(
                        IF Truthy(r.content.topic) THEN r.content.topic ELSE "Discussion",
                        IF Truthy(r.content.summary) THEN r.content.summary ELSE "No summary generated.",
                        IF r.content.actionItems /= NotArray THEN r.content.actionItems ELSE <<>>)]

RECURSIVE ActionItemLines(_, _)
ActionItemLines(items, index) ==
    IF items = <<>> THEN <<>>
    ELSE <<ToString(index + 1), ". ", Head(items), "\n">> \o ActionItemLines(Tail(items), index + 1)

\* the label is written without the test of line 208
formatSummaryResponseAlwaysLabelled(topic, summary, actionItems) ==
    <<"*Topic:* ", topic, "\n\n*Summary:*\n", summary, "\n\n">>
    \o <<"*Action Items:*\n">> \o ActionItemLines(actionItems, 0)

\* SlackService.formatSummaryResponse
formatSummaryResponse(topic, summary, actionItems) ==
    <<"*Topic:* ", topic, "\n\n*Summary:*\n", summary, "\n\n">>
    \o (IF Len(actionItems) > 0
        THEN <<"*Action Items:*\n">> \o ActionItemLines(actionItems, 0)
        ELSE <<>>)

----------------------------------------------------------------------------
(* Texts of the notices *)

ShortcutLoadingText == <<":hourglass: Fetching messages and generating summary...">>
NoContentText == <<"No message content found to summarize.">>
ShortcutSuccessText == <<":white_check_mark: Summary generated and posted as a reply.">>
ThreadSummaryTitle == <<"*Thread Summary*\n\n">>
MessageSummaryTitle == <<"*Message Summary*\n\n">>
QuotaText == <<"OpenAI API quota exceeded or rate limited. Please try again later or check your API key settings.">>
NotInChannelText == <<"The bot is not in this channel. Please invite the bot to the channel first using ", "/invite", " @YourBotName.">>
ShortcutDefaultErrorText == <<"An error occurred while summarizing.">>
CommandLoadingText == <<":hourglass: Processing your request...">>
CommandProgressText == <<":hourglass: Fetching today's messages and generating summary...">>
NoMessagesText == <<"No messages found in the channel for today (based on your timezone).">>
CommandDefaultErrorText == <<"An error occurred while generating the summary.">>
AuthFailedText == <<"Authentication failed. Please check the bot token or reinstall the app.">>
MissingScopeText == <<"The bot is missing required permissions. Please reinstall the app with all required scopes.">>
ChannelNotFoundText(targetChannel) ==
    <<"Channel #">> \o targetChannel \o <<" not found. Please provide a valid channel name or ID.">>
CommandSuccessText(channelName) ==
    <<":white_check_mark: Summary generated and posted to #">> \o channelName \o <<".">>
FallbackSuffix == <<" (Failed to update original message)">>

\* utils/error-handler.ts, formatErrorMessage
\* missing_scope tested before not_in_channel
formatErrorMessageScopeFirst(error, defaultMessage) ==
    IF error.isError
    THEN IF Includes(error.message, "quota") \/ Includes(error.message, "rate limit")
         THEN QuotaText
         ELSE IF Includes(error.message, "missing_scope")
              THEN MissingScopeText
              ELSE IF Includes(error.message, "not_in_channel")
                   THEN NotInChannelText
                   ELSE IF Includes(error.message, "not_authed") \/ Includes(error.message, "invalid_auth")
                        THEN AuthFailedText
                        ELSE <<"Error: ">> \o error.message
    ELSE defaultMessage

formatErrorMessage(error, defaultMessage) ==
    IF error.isError
    THEN IF Includes(error.message, "quota") \/ Includes(error.message, "rate limit")
         THEN QuotaText
         ELSE IF Includes(error.message, "not_in_channel")
              THEN NotInChannelText
              ELSE IF Includes(error.message, "not_authed") \/ Includes(error.message, "invalid_auth")
                   THEN AuthFailedText
                   ELSE IF Includes(error.message, "missing_scope")
                        THEN MissingScopeText
                        ELSE <<"Error: ">> \o error.message
    ELSE defaultMessage

\* the classification without the not_in_channel test of line 187
ShortcutErrorMessageWithoutInvite(error) ==
    IF error.isError
    THEN IF Includes(error.message, "quota") \/ Includes(error.message, "rate limit")
         THEN QuotaText
         ELSE <<"Error: ">> \o error.message
    ELSE ShortcutDefaultErrorText

\* actions.ts, lines 179-194
ShortcutErrorMessage(error) ==
    IF error.isError
    THEN IF Includes(error.message, "quota") \/ Includes(error.message, "rate limit")
         THEN QuotaText
         ELSE IF Includes(error.message, "not_in_channel")
              THEN NotInChannelText
              ELSE <<"Error: ">> \o error.message
    ELSE ShortcutDefaultErrorText

----------------------------------------------------------------------------
(* State *)

NoShortcut == [type |-> NoVal, channel |-> NoChannel, user |-> NoVal, ts |-> NoVal,
               thread_ts |-> NoVal, text |-> NoVal]

Shortcuts == [type : ShortcutTypes, channel : Channels, user : Users, ts : {MessageTs},
              thread_ts : ThreadTsValues, text : InlineTexts]

NoCommand == [text |-> <<>>, channel_id |-> NoChannel, user_id |-> NoVal]

\* the command is invoked in one channel; its argument names that channel or the other
InvokingChannels == {ChannelC2}
Commands == [text : CommandTexts, channel_id : InvokingChannels, user_id : Users]

InitLocal == [threadMessages |-> <<>>, messagesToSummarize |-> <<>>, summaryTitle |-> <<>>,
              replyThreadTs |-> NoVal, result |-> NoResult, error |-> NoError,
              history |-> Returns(FALSE, NoVal, FALSE, <<>>),
              targetChannel |-> NoChannel, channelName |-> <<>>, messages |-> <<>>,
              tzOffset |-> 0, now |-> NoTime, errorMessage |-> <<>>,
              userInfo |-> NoUserInfo, processTz |-> 0, response |-> NoResponse,
              messagesDefined |-> TRUE, text |-> <<>>, channels |-> <<>>]

Init ==
    /\ other = NoTrigger
    /\ req = NoRequest
    /\ res = NoReply
    /\ trigger \in {"shortcut", "command"}
    /\ shortcut \in (IF trigger = "shortcut" THEN Shortcuts ELSE {NoShortcut})
    /\ command \in (IF trigger = "command" THEN Commands ELSE {NoCommand})
    /\ nodeEnv \in (IF trigger = "command" THEN NodeEnvs ELSE {"production"})
    /\ pc = "idle"
    /\ handler = "idle"
    /\ task = "notstarted"
    /\ calls = <<>>
    /\ local = InitLocal
    /\ logged = <<>>

----------------------------------------------------------------------------
(* summarize_thread shortcut: functions/src/routes/actions.ts *)

\* the history fetch is made outside of any try statement
ShortcutTryHistoryUnguarded ==
    [s_loading |-> "try39", s_replies_thread |-> "try39", s_replies_parent |-> "try39",
     s_history |-> "none", s_nocontent |-> "try39", s_completion |-> "try39",
     s_post |-> "try39", s_success |-> "try39", s_errnotice |-> "try172"]

\* the try statement that encloses each await of the background task
ShortcutTry ==
    [s_loading |-> "try39", s_replies_thread |-> "try39", s_replies_parent |-> "try39",
     s_history |-> "try110", s_nocontent |-> "try39", s_completion |-> "try39",
     s_post |-> "try39", s_success |-> "try39", s_errnotice |-> "try172"]

\* the catch block only logs the error
ShortcutCatchLogsOnly(error, cs, lg, loc) ==
    /\ logged' = Append(lg, "Error handling summarize_thread shortcut:")
    /\ local' = [loc EXCEPT !.error = error]
    /\ calls' = cs
    /\ pc' = "done"
    /\ task' = "done"

\* catch (error), lines 168-205: classify and notify the requester
ShortcutCatch(error, cs, lg, loc) ==
    /\ logged' = Append(lg, "Error handling summarize_thread shortcut:")
    /\ local' = [loc EXCEPT !.error = error]
    /\ IF shortcut.type = "message_action"
       THEN /\ calls' = Append(cs, PostEphemeral(shortcut.channel, shortcut.user, ShortcutErrorMessage(error)))
            /\ pc' = "s_errnotice"
            /\ task' = "running"
       ELSE /\ calls' = cs
            /\ pc' = "done"
            /\ task' = "done"

\* an exception raised at the current await: cs is calls with that call settled,
\* loc the task's locals
ShortcutRaiseWith(error, cs, loc) ==
    LET region == ShortcutTry[pc] IN
    CASE region = "try39" -> ShortcutCatch(error, cs, logged, loc)
      [] region = "try110" ->
            \* catch (historyError), lines 130-133
            ShortcutCatch(Err(<<"Failed to retrieve message content">>), cs,
                          Append(logged, "Error fetching message history:"), loc)
      [] region = "try172" ->
            \* catch (e), lines 202-204
            /\ logged' = Append(logged, "Failed to send error notification:")
            /\ calls' = cs
            /\ pc' = "done"
            /\ task' = "done"
            /\ local' = loc
      [] OTHER ->
            /\ calls' = cs
            /\ pc' = "done"
            /\ task' = "uncaught"
            /\ local' = loc
            /\ UNCHANGED logged

ShortcutRaise(error, cs) == ShortcutRaiseWith(error, cs, local)

\* lines 138-151, once the scope is resolved: loc is the task's locals
ShortcutSummarize(cs, loc) ==
    /\ local' = loc
    /\ task' = "running"
    /\ UNCHANGED logged
    /\ IF Len(loc.messagesToSummarize) = 0
       THEN /\ calls' = Append(cs, PostEphemeral(shortcut.channel, shortcut.user, NoContentText))
            /\ pc' = "s_nocontent"
       ELSE IF SummaryWithoutCall(loc.messagesToSummarize)
            THEN /\ calls' = Append(cs, PostMessage(shortcut.channel,
                                 loc.summaryTitle \o formatSummaryResponse(NoMessagesResult.topic,
                                     NoMessagesResult.summary, NoMessagesResult.actionItems),
                                 loc.replyThreadTs))
                 /\ pc' = "s_post"
            ELSE /\ calls' = Append(cs, Completion(loc.messagesToSummarize))
                 /\ pc' = "s_completion"

\* line 35 with an await in front of the task: the handler waits for the work
HandlerAwaitsTask == "running"

\* the background task is started and not awaited (actions.ts line 35 and 206,
\* commands.ts line 23 and 159): the handler returns at the task's first await
HandlerAfterAck == "returned"

\* app.shortcut('summarize_thread', ...) is invoked, line 30-32
ShortcutInvoke ==
    /\ trigger = "shortcut"
    /\ pc = "idle"
    /\ pc' = "s_ack"
    /\ handler' = "running"
    /\ calls' = Append(calls, AckCall)
    /\ UNCHANGED <<other, req, res, trigger, shortcut, command, nodeEnv, task, local, logged>>

\* the handler without the type test of lines 41-44
ShortcutAckedWithoutTypeCheck ==
    /\ pc = "s_ack"
    /\ \E r \in SendResults :
         IF r.threw
         THEN /\ handler' = "rejected"
              /\ pc' = "done"
              /\ calls' = Settle("fail")
              /\ UNCHANGED <<task, logged>>
         ELSE /\ handler' = HandlerAfterAck
              /\ calls' = Append(Settle("ok"),
                               PostEphemeral(shortcut.channel, shortcut.user, ShortcutLoadingText))
              /\ pc' = "s_loading"
              /\ task' = "running"
              /\ UNCHANGED logged
    /\ UNCHANGED <<other, req, res, trigger, shortcut, command, nodeEnv, local>>

\* await ack() settles; the task starts and runs to its first await, lines 32-64
ShortcutAcked ==
    /\ pc = "s_ack"
    /\ \E r \in SendResults :
         IF r.threw
         THEN /\ handler' = "rejected"
              /\ pc' = "done"
              /\ calls' = Settle("fail")
              /\ UNCHANGED <<task, logged>>
         ELSE /\ handler' = HandlerAfterAck
              /\ IF shortcut.type /= "message_action"
                 THEN /\ logged' = Append(logged, "This shortcut must be used on a message.")
                      /\ calls' = Settle("ok")
                      /\ pc' = "done"
                      /\ task' = "done"
                 ELSE /\ calls' = Append(Settle("ok"),
                                    PostEphemeral(shortcut.channel, shortcut.user, ShortcutLoadingText))
                      /\ pc' = "s_loading"
                      /\ task' = "running"
                      /\ UNCHANGED logged
    /\ UNCHANGED <<other, req, res, trigger, shortcut, command, nodeEnv, local>>

\* the loading notice in a try of its own: a failure is dropped and the fetch goes ahead
ShortcutLoadingSentSwallowing ==
    /\ pc = "s_loading"
    /\ \E r \in SendResults :
         LET cs == Settle(IF r.threw THEN "fail" ELSE "ok") IN
         /\ IF Truthy(shortcut.thread_ts)
            THEN /\ calls' = Append(cs, Replies(shortcut.channel, shortcut.thread_ts))
                 /\ pc' = "s_replies_thread"
            ELSE /\ calls' = Append(cs, Replies(shortcut.channel, shortcut.ts))
                 /\ pc' = "s_replies_parent"
         /\ UNCHANGED <<task, local, logged>>
    /\ UNCHANGED <<other, req, res, trigger, shortcut, command, nodeEnv, handler>>

\* the loading notice settles; the first fetch is issued, lines 60-92
ShortcutLoadingSent ==
    /\ pc = "s_loading"
    /\ \E r \in SendResults :
         IF r.threw
         THEN ShortcutRaise(r.err, Settle("fail"))
         ELSE /\ IF Truthy(shortcut.thread_ts)
                 THEN /\ calls' = Append(Settle("ok"), Replies(shortcut.channel, shortcut.thread_ts))
                      /\ pc' = "s_replies_thread"
                 ELSE /\ calls' = Append(Settle("ok"), Replies(shortcut.channel, shortcut.ts))
                      /\ pc' = "s_replies_parent"
              /\ UNCHANGED <<task, local, logged>>
    /\ UNCHANGED <<other, req, res, trigger, shortcut, command, nodeEnv, handler>>

\* case 1, lines 81-89: the thread of a reply was fetched
ShortcutThreadFetched ==
    /\ pc = "s_replies_thread"
    /\ \E r \in FetchResults :
         LET out == GetThreadReplies(r) IN
         IF out.threw
         THEN ShortcutRaise(out.err, Settle("fail"))
         ELSE IF Len(out.messages) > 0
              THEN ShortcutSummarize(Settle("ok"),
                       [local EXCEPT !.threadMessages = out.messages,
                                     !.messagesToSummarize = FilterTexts(out.messages),
                                     !.summaryTitle = ThreadSummaryTitle,
                                     !.replyThreadTs = shortcut.thread_ts])
              ELSE ShortcutRaiseWith(Err(<<"Could not fetch thread messages">>), Settle("ok"),
                                     [local EXCEPT !.threadMessages = out.messages])
    /\ UNCHANGED <<other, req, res, trigger, shortcut, command, nodeEnv, handler>>

\* the inline text is tested before the replies
ParentScopeInlineFirst(threadMessages, text) ==
    IF Truthy(text) THEN "standalone"
    ELSE IF Len(threadMessages) > 1 THEN "parent"
         ELSE "history"

\* the root alone already counts as a thread
ParentScopeRootCounts(threadMessages, text) ==
    IF Len(threadMessages) > 0 THEN "parent"
    ELSE IF Truthy(text) THEN "standalone"
         ELSE "history"

\* lines 94-108: what a message without thread_ts is taken to be
ParentScope(threadMessages, text) ==
    IF Len(threadMessages) > 1 THEN "parent"
    ELSE IF Truthy(text) THEN "standalone"
         ELSE "history"

\* cases 2 and 3, lines 92-116: the replies of the selected message were fetched
ShortcutParentChecked ==
    /\ pc = "s_replies_parent"
    /\ \E r \in FetchResults :
         LET out == GetThreadReplies(r) IN
         IF out.threw
         THEN ShortcutRaise(out.err, Settle("fail"))
         ELSE IF ParentScope(out.messages, shortcut.text) = "parent"
              THEN ShortcutSummarize(Settle("ok"),
                       [local EXCEPT !.threadMessages = out.messages,
                                     !.messagesToSummarize = FilterTexts(out.messages),
                                     !.summaryTitle = ThreadSummaryTitle,
                                     !.replyThreadTs = shortcut.ts])
              ELSE IF ParentScope(out.messages, shortcut.text) = "standalone"
                   THEN ShortcutSummarize(Settle("ok"),
                            [local EXCEPT !.threadMessages = out.messages,
                                          !.messagesToSummarize = <<shortcut.text>>,
                                          !.summaryTitle = MessageSummaryTitle,
                                          !.replyThreadTs = shortcut.ts])
                   ELSE /\ calls' = Append(Settle("ok"), HistoryOne(shortcut.channel, shortcut.ts))
                        /\ pc' = "s_history"
                        /\ local' = [local EXCEPT !.threadMessages = out.messages]
                        /\ UNCHANGED <<task, logged>>
    /\ UNCHANGED <<other, req, res, trigger, shortcut, command, nodeEnv, handler>>

\* lines 111-133: the selected message was fetched from the channel history
ShortcutHistoryFetched ==
    /\ pc = "s_history"
    /\ \E r \in FetchResults :
         IF r.threw
         THEN ShortcutRaiseWith(r.err, Settle("fail"), [local EXCEPT !.history = r])
         ELSE IF r.ok /\ r.hasMessages /\ Len(r.messages) > 0
              THEN IF Truthy(r.messages[1].text)
                   THEN ShortcutSummarize(Settle("ok"),
                            [local EXCEPT !.history = r,
                                          !.messagesToSummarize = <<r.messages[1].text>>,
                                          !.summaryTitle = MessageSummaryTitle,
                                          !.replyThreadTs = shortcut.ts])
                   ELSE ShortcutRaiseWith(Err(<<"Message has no text content">>), Settle("ok"),
                                          [local EXCEPT !.history = r])
              ELSE ShortcutRaiseWith(Err(<<"Could not find the message">>), Settle("ok"),
                                     [local EXCEPT !.history = r])
    /\ UNCHANGED <<other, req, res, trigger, shortcut, command, nodeEnv, handler>>

\* lines 140-145: the no-content notice settles
ShortcutNoContentSent ==
    /\ pc = "s_nocontent"
    /\ \E r \in SendResults :
         IF r.threw
         THEN ShortcutRaise(r.err, Settle("fail"))
         ELSE /\ calls' = Settle("ok")
              /\ pc' = "done"
              /\ task' = "done"
              /\ UNCHANGED <<local, logged>>
    /\ UNCHANGED <<other, req, res, trigger, shortcut, command, nodeEnv, handler>>

\* lines 151-159: generateSummary settles; the summary is formatted and posted
ShortcutSummaryGenerated ==
    /\ pc = "s_completion"
    /\ \E r \in FlowCompletionResults :
         LET out == GenerateSummary(r) IN
         IF out.threw
         THEN ShortcutRaiseWith(out.err, Settle("fail"), [local EXCEPT !.response = r])
         ELSE /\ calls' = Append(Settle("ok"),
                     PostMessage(shortcut.channel,
                         local.summaryTitle \o formatSummaryResponse(out.value.topic,
                             out.value.summary, out.value.actionItems),
                         local.replyThreadTs))
              /\ pc' = "s_post"
              /\ local' = [local EXCEPT !.response = r, !.result = out.value]
              /\ UNCHANGED <<task, logged>>
    /\ UNCHANGED <<other, req, res, trigger, shortcut, command, nodeEnv, handler>>

\* lines 159-167: the public post settles; the success notice is sent
\* the success notice sent whatever became of the post
ShortcutPostedAlwaysNotifies ==
    /\ pc = "s_post"
    /\ \E r \in PostResults :
         LET out == SlackPostMessage(r) IN
         /\ calls' = Append(Settle(IF out.threw THEN "fail" ELSE "ok"),
                     PostEphemeral(shortcut.channel, shortcut.user, ShortcutSuccessText))
         /\ pc' = "s_success"
         /\ UNCHANGED <<task, local, logged>>
    /\ UNCHANGED <<other, req, res, trigger, shortcut, command, nodeEnv, handler>>

ShortcutPosted ==
    /\ pc = "s_post"
    /\ \E r \in PostResults :
         LET out == SlackPostMessage(r) IN
         IF out.threw
         THEN ShortcutRaise(out.err, Settle("fail"))
         ELSE /\ calls' = Append(Settle("ok"),
                     PostEphemeral(shortcut.channel, shortcut.user, ShortcutSuccessText))
              /\ pc' = "s_success"
              /\ UNCHANGED <<task, local, logged>>
    /\ UNCHANGED <<other, req, res, trigger, shortcut, command, nodeEnv, handler>>

\* lines 163-167: the success notice settles
ShortcutSuccessNotified ==
    /\ pc = "s_success"
    /\ \E r \in SendResults :
         IF r.threw
         THEN ShortcutRaise(r.err, Settle("fail"))
         ELSE /\ calls' = Settle("ok")
              /\ pc' = "done"
              /\ task' = "done"
              /\ UNCHANGED <<local, logged>>
    /\ UNCHANGED <<other, req, res, trigger, shortcut, command, nodeEnv, handler>>

\* lines 196-204: the error notice settles
ShortcutErrorNotified ==
    /\ pc = "s_errnotice"
    /\ \E r \in ErrorNoticeResults :
         IF r.threw
         THEN ShortcutRaise(r.err, Settle("fail"))
         ELSE /\ calls' = Settle("ok")
              /\ pc' = "done"
              /\ task' = "done"
              /\ UNCHANGED <<local, logged>>
    /\ UNCHANGED <<other, req, res, trigger, shortcut, command, nodeEnv, handler>>

----------------------------------------------------------------------------
(* /summary-today slash command: functions/src/routes/commands.ts, lines 1-161 *)

\* the fallback notice is sent outside of any try statement
CommandTryFallbackUnguarded ==
    [c_loading |-> "try26", c_list |-> "try26", c_notfound |-> "try26", c_progress |-> "try26",
     c_timezone |-> "try26", c_history |-> "try26", c_nomessages |-> "try26", c_info |-> "try26",
     c_completion |-> "try26", c_post |-> "try26", c_success |-> "try26",
     c_errrespond |-> "try138", c_fallback |-> "none"]

\* the try statement that encloses each await of the background task
CommandTry ==
    [c_loading |-> "try26", c_list |-> "try26", c_notfound |-> "try26", c_progress |-> "try26",
     c_timezone |-> "try26", c_history |-> "try26", c_nomessages |-> "try26", c_info |-> "try26",
     c_completion |-> "try26", c_post |-> "try26", c_success |-> "try26",
     c_errrespond |-> "try138", c_fallback |-> "try148"]

\* an exception raised at the current await: cs is calls with that call settled,
\* loc the task's locals
\* the error notice sent as a new ephemeral message instead of through respond
CommandRaiseWithoutRespond(error, cs, loc) ==
    LET region == CommandTry[pc] IN
    CASE region = "try26" ->
            \* catch (error), lines 124-144
            LET errorMessage == formatErrorMessage(error, CommandDefaultErrorText) IN
            /\ logged' = Append(logged, "Error handling /summary-today command")
            /\ local' = [loc EXCEPT !.error = error, !.errorMessage = errorMessage]
            /\ calls' = Append(cs, PostEphemeral(command.channel_id, command.user_id,
                                                 errorMessage))
            /\ pc' = "c_errrespond"
            /\ task' = "running"
      [] region = "try138" ->
            \* catch (respondError), lines 145-153
            /\ logged' = Append(logged, "Failed to send error message:")
            /\ calls' = Append(cs, PostEphemeral(command.channel_id, command.user_id,
                                                 local.errorMessage \o FallbackSuffix))
            /\ pc' = "c_fallback"
            /\ task' = "running"
            /\ local' = loc
      [] region = "try148" ->
            \* catch (finalError), lines 154-156
            /\ logged' = Append(logged, "All error notification attempts failed:")
            /\ calls' = cs
            /\ pc' = "done"
            /\ task' = "done"
            /\ local' = loc
      [] OTHER ->
            /\ calls' = cs
            /\ pc' = "done"
            /\ task' = "uncaught"
            /\ local' = loc
            /\ UNCHANGED logged

CommandRaiseLogging(error, cs, loc, lg) ==
    LET region == CommandTry[pc] IN
    CASE region = "try26" ->
            \* catch (error), lines 124-144
            LET errorMessage == formatErrorMessage(error, CommandDefaultErrorText) IN
            /\ logged' = Append(lg, "Error handling /summary-today command")
            /\ local' = [loc EXCEPT !.error = error, !.errorMessage = errorMessage]
            /\ calls' = Append(cs, Respond(errorMessage, "ephemeral_replace"))
            /\ pc' = "c_errrespond"
            /\ task' = "running"
      [] region = "try138" ->
            \* catch (respondError), lines 145-153
            /\ logged' = Append(lg, "Failed to send error message:")
            /\ calls' = Append(cs, PostEphemeral(command.channel_id, command.user_id,
                                                 local.errorMessage \o FallbackSuffix))
            /\ pc' = "c_fallback"
            /\ task' = "running"
            /\ local' = loc
      [] region = "try148" ->
            \* catch (finalError), lines 154-156
            /\ logged' = Append(lg, "All error notification attempts failed:")
            /\ calls' = cs
            /\ pc' = "done"
            /\ task' = "done"
            /\ local' = loc
      [] OTHER ->
            /\ calls' = cs
            /\ pc' = "done"
            /\ task' = "uncaught"
            /\ local' = loc
            /\ logged' = lg

CommandRaiseWith(error, cs, loc) == CommandRaiseLogging(error, cs, loc, logged)

CommandRaise(error, cs) == CommandRaiseWith(error, cs, local)

\* the task returns normally after its last notice
\* the task left waiting after its last call instead of returning
CommandFinishHangs(cs) ==
    /\ calls' = cs
    /\ pc' = "hung"
    /\ UNCHANGED <<task, local, logged>>

CommandFinish(cs) ==
    /\ calls' = cs
    /\ pc' = "done"
    /\ task' = "done"
    /\ UNCHANGED <<local, logged>>

\* lines 69-75: the target channel is known, the loading notice is updated
CommandProgress(cs, loc) ==
    /\ calls' = Append(cs, Respond(CommandProgressText, "ephemeral_replace"))
    /\ pc' = "c_progress"
    /\ local' = loc
    /\ UNCHANGED <<task, logged>>

\* lines 110-115: the summary is formatted and posted in the target channel
\* postMessage not awaited: the success notice is sent while the post is outstanding
CommandPostNotAwaited(cs, loc) ==
    /\ calls' = Append(Append(cs, PostMessage(loc.targetChannel,
                     getChannelSummaryHeader(loc.channelName)
                         \o formatSummaryResponse(loc.result.topic, loc.result.summary,
                                                  loc.result.actionItems),
                     NoVal)),
                     Respond(CommandSuccessText(loc.channelName), "ephemeral_replace"))
    /\ pc' = "c_success"
    /\ local' = loc
    /\ UNCHANGED <<task, logged>>

\* the summary posted where the command was typed
CommandPostToInvokingChannel(cs, loc) ==
    /\ calls' = Append(cs, PostMessage(command.channel_id,
                     getChannelSummaryHeader(loc.channelName)
                         \o formatSummaryResponse(loc.result.topic, loc.result.summary,
                                                  loc.result.actionItems),
                     NoVal))
    /\ pc' = "c_post"
    /\ local' = loc
    /\ UNCHANGED <<task, logged>>

CommandPost(cs, loc) ==
    /\ calls' = Append(cs, PostMessage(loc.targetChannel,
                     getChannelSummaryHeader(loc.channelName)
                         \o formatSummaryResponse(loc.result.topic, loc.result.summary,
                                                  loc.result.actionItems),
                     NoVal))
    /\ pc' = "c_post"
    /\ local' = loc
    /\ UNCHANGED <<task, logged>>

\* app.command('/summary-today', ...) is invoked, lines 17-19
CommandInvoke ==
    /\ trigger = "command"
    /\ pc = "idle"
    /\ pc' = "c_ack"
    /\ handler' = "running"
    /\ calls' = Append(calls, AckCall)
    /\ UNCHANGED <<other, req, res, trigger, shortcut, command, nodeEnv, task, local, logged>>

\* await ack() settles; the task starts and runs to its first await, lines 19-33
CommandAcked ==
    /\ pc = "c_ack"
    /\ \E r \in SendResults :
         IF r.threw
         THEN /\ handler' = "rejected"
              /\ pc' = "done"
              /\ calls' = Settle("fail")
              /\ UNCHANGED task
         ELSE /\ handler' = HandlerAfterAck
              /\ calls' = Append(Settle("ok"), Respond(CommandLoadingText, "ephemeral"))
              /\ pc' = "c_loading"
              /\ task' = "running"
    /\ UNCHANGED <<other, req, res, trigger, shortcut, command, nodeEnv, local, logged>>

\* every argument is looked up by name, an id-shaped one included
CommandLoadingSentAlwaysListing ==
    /\ pc = "c_loading"
    /\ \E r \in SendResults :
         IF r.threw
         THEN CommandRaise(r.err, Settle("fail"))
         ELSE LET targetChannel == formatChannelInput(command.text) IN
              IF targetChannel = <<>>
              THEN CommandProgress(Settle("ok"), [local EXCEPT !.targetChannel = command.channel_id])
              ELSE /\ calls' = Append(Settle("ok"), ListChannels)
                   /\ pc' = "c_list"
                   /\ local' = [local EXCEPT !.targetChannel = targetChannel]
                   /\ UNCHANGED <<task, logged>>
    /\ UNCHANGED <<other, req, res, trigger, shortcut, command, nodeEnv, handler>>

\* lines 30-75: the loading notice settles; the target channel is parsed
CommandLoadingSent ==
    /\ pc = "c_loading"
    /\ \E r \in SendResults :
         IF r.threw
         THEN CommandRaise(r.err, Settle("fail"))
         ELSE LET targetChannel == formatChannelInput(command.text) IN
              IF targetChannel = <<>>
              THEN CommandProgress(Settle("ok"), [local EXCEPT !.targetChannel = command.channel_id])
              ELSE IF ~StartsWith(targetChannel, "C")
                   THEN /\ calls' = Append(Settle("ok"), ListChannels)
                        /\ pc' = "c_list"
                        /\ local' = [local EXCEPT !.targetChannel = targetChannel]
                        /\ UNCHANGED <<task, logged>>
                   ELSE CommandProgress(Settle("ok"), [local EXCEPT !.targetChannel = targetChannel])
    /\ UNCHANGED <<other, req, res, trigger, shortcut, command, nodeEnv, handler>>

\* lines 51-75: the channel list settles; the name is resolved to an id
CommandChannelsListed ==
    /\ pc = "c_list"
    /\ \E r \in ListResults :
         LET out == SlackListChannels(r) IN
         IF out.threw
         THEN CommandRaiseLogging(out.err, Settle("fail"), local, logged \o out.logs)
         ELSE LET i == FindChannel(out.channels, local.targetChannel) IN
              IF i = 0
              THEN /\ calls' = Append(Settle("ok"),
                          Respond(ChannelNotFoundText(local.targetChannel), "ephemeral_replace"))
                   /\ pc' = "c_notfound"
                   /\ logged' = Append(logged \o out.logs, "Channel not found")
                   /\ local' = [local EXCEPT !.channels = out.channels]
                   /\ UNCHANGED task
              ELSE CommandProgress(Settle("ok"),
                       [local EXCEPT !.channels = out.channels,
                                     !.targetChannel = out.channels[i].id])
    /\ UNCHANGED <<other, req, res, trigger, shortcut, command, nodeEnv, handler>>

\* lines 56-61: the channel-not-found notice settles
CommandNotFoundSent ==
    /\ pc = "c_notfound"
    /\ \E r \in SendResults :
         IF r.threw THEN CommandRaise(r.err, Settle("fail")) ELSE CommandFinish(Settle("ok"))
    /\ UNCHANGED <<other, req, res, trigger, shortcut, command, nodeEnv, handler>>

\* lines 71-79 and getTodayMessages, lines 58-62: the user's timezone is looked up.
\* The channel list of line 51 is local to the block that ends at line 67.
CommandProgressSent ==
    /\ pc = "c_progress"
    /\ \E r \in SendResults :
         LET loc == [local EXCEPT !.channels = <<>>] IN
         IF r.threw
         THEN CommandRaiseWith(r.err, Settle("fail"), loc)
         ELSE IF Truthy(command.user_id)
              THEN /\ calls' = Append(Settle("ok"), UsersInfo(command.user_id))
                   /\ pc' = "c_timezone"
                   /\ local' = loc
                   /\ UNCHANGED <<task, logged>>
              ELSE \E now \in Nows, processTz \in ProcessTzOffsets :
                   /\ calls' = Append(Settle("ok"),
                          HistorySince(local.targetChannel, StartOfDay(now, 0, processTz)))
                   /\ pc' = "c_history"
                   /\ local' = [loc EXCEPT !.tzOffset = 0, !.now = now,
                                           !.processTz = processTz]
                   /\ UNCHANGED <<task, logged>>
    /\ UNCHANGED <<other, req, res, trigger, shortcut, command, nodeEnv, handler>>

\* getTodayMessages, lines 61-84: the window start is computed and the window fetched
CommandTimezoneFetched ==
    /\ pc = "c_timezone"
    /\ \E r \in UserInfoResults, now \in Nows, processTz \in ProcessTzOffsets :
         LET tzOffset == GetUserTimezone(r) IN
         \* getUserTimezone swallows a failed lookup: its caller sees a normal return
         /\ calls' = Append(Settle("ok"),
                HistorySince(local.targetChannel, StartOfDay(now, tzOffset, processTz)))
         /\ pc' = "c_history"
         /\ local' = [local EXCEPT !.userInfo = r, !.tzOffset = tzOffset, !.now = now,
                                   !.processTz = processTz]
         /\ IF r.threw
            THEN logged' = Append(logged, "Error getting user timezone:")
            ELSE UNCHANGED logged
         /\ UNCHANGED task
    /\ UNCHANGED <<other, req, res, trigger, shortcut, command, nodeEnv, handler>>

\* getTodayMessages, lines 80-90, and commands.ts, lines 79-96: the window settles
CommandHistoryFetched ==
    /\ pc = "c_history"
    /\ \E r \in FetchResults :
         IF r.threw
         THEN CommandRaise(r.err, Settle("fail"))
         ELSE LET messages == IF r.hasMessages THEN r.messages ELSE <<>> IN
              IF Len(messages) = 0
              THEN /\ calls' = Append(Settle("ok"), Respond(NoMessagesText, "ephemeral_replace"))
                   /\ pc' = "c_nomessages"
                   /\ local' = [local EXCEPT !.messages = messages]
                   /\ UNCHANGED <<task, logged>>
              ELSE /\ calls' = Append(Settle("ok"), ChannelInfo(local.targetChannel))
                   /\ pc' = "c_info"
                   /\ local' = [local EXCEPT !.messages = messages]
                   /\ UNCHANGED <<task, logged>>
    /\ UNCHANGED <<other, req, res, trigger, shortcut, command, nodeEnv, handler>>

\* lines 83-88: the no-messages notice settles
CommandNoMessagesSent ==
    /\ pc = "c_nomessages"
    /\ \E r \in SendResults :
         IF r.threw THEN CommandRaise(r.err, Settle("fail")) ELSE CommandFinish(Settle("ok"))
    /\ UNCHANGED <<other, req, res, trigger, shortcut, command, nodeEnv, handler>>

\* lines 94-115: the channel name settles; the texts are extracted and summarized
CommandInfoFetched ==
    /\ pc = "c_info"
    /\ \E r \in InfoResults :
         IF r.threw
         THEN CommandRaise(r.err, Settle("fail"))
         ELSE LET channelName == IF r.hasChannel /\ r.name /= <<>> THEN r.name
                                 ELSE local.targetChannel
                  messageTexts == extractMessageTexts(local.messages)
                  loc == [local EXCEPT !.channelName = channelName,
                                       !.messagesToSummarize = messageTexts]
              IN  IF SummaryWithoutCall(messageTexts)
                  THEN CommandPost(Settle("ok"), [loc EXCEPT !.result = NoMessagesResult])
                  ELSE /\ calls' = Append(Settle("ok"), Completion(messageTexts))
                       /\ pc' = "c_completion"
                       /\ local' = loc
                       /\ UNCHANGED <<task, logged>>
    /\ UNCHANGED <<other, req, res, trigger, shortcut, command, nodeEnv, handler>>

\* lines 106-115: generateSummary settles; the summary is formatted and posted
\* generateSummary called again once after a failed completion
CommandSummaryGeneratedWithRetry ==
    /\ pc = "c_completion"
    /\ \E r \in FlowCompletionResults :
         LET out == GenerateSummary(r) IN
         IF out.threw
         THEN IF Len(SelectSeq(calls, LAMBDA c : c.op = "chat.completions.create")) < 2
              THEN /\ calls' = Append(Settle("fail"), Completion(Last.text))
                   /\ UNCHANGED <<pc, task, local, logged>>
              ELSE CommandRaiseWith(out.err, Settle("fail"), [local EXCEPT !.response = r])
         ELSE CommandPost(Settle("ok"), [local EXCEPT !.response = r, !.result = out.value])
    /\ UNCHANGED <<other, req, res, trigger, shortcut, command, nodeEnv, handler>>

CommandSummaryGenerated ==
    /\ pc = "c_completion"
    /\ \E r \in FlowCompletionResults :
         LET out == GenerateSummary(r) IN
         IF out.threw
         THEN CommandRaiseWith(out.err, Settle("fail"), [local EXCEPT !.response = r])
         ELSE CommandPost(Settle("ok"), [local EXCEPT !.response = r, !.result = out.value])
    /\ UNCHANGED <<other, req, res, trigger, shortcut, command, nodeEnv, handler>>

\* lines 115-123: the public post settles; the success notice is sent
CommandPosted ==
    /\ pc = "c_post"
    /\ \E r \in PostResults :
         LET out == SlackPostMessage(r) IN
         IF out.threw
         THEN CommandRaise(out.err, Settle("fail"))
         ELSE /\ calls' = Append(Settle("ok"),
                     Respond(CommandSuccessText(local.channelName), "ephemeral_replace"))
              /\ pc' = "c_success"
              /\ UNCHANGED <<task, local, logged>>
    /\ UNCHANGED <<other, req, res, trigger, shortcut, command, nodeEnv, handler>>

\* lines 119-123: the success notice settles
CommandSuccessNotified ==
    /\ pc = "c_success"
    /\ \E r \in SendResults :
         IF r.threw THEN CommandRaise(r.err, Settle("fail")) ELSE CommandFinish(Settle("ok"))
    /\ UNCHANGED <<other, req, res, trigger, shortcut, command, nodeEnv, handler>>

\* lines 138-153: the error notice sent through respond settles
CommandErrorResponded ==
    /\ pc = "c_errrespond"
    /\ \E r \in ErrorNoticeResults :
         IF r.threw THEN CommandRaise(r.err, Settle("fail")) ELSE CommandFinish(Settle("ok"))
    /\ UNCHANGED <<other, req, res, trigger, shortcut, command, nodeEnv, handler>>

\* lines 148-156: the fallback ephemeral message settles
CommandFallbackSent ==
    /\ pc = "c_fallback"
    /\ \E r \in ErrorNoticeResults :
         IF r.threw THEN CommandRaise(r.err, Settle("fail")) ELSE CommandFinish(Settle("ok"))
    /\ UNCHANGED <<other, req, res, trigger, shortcut, command, nodeEnv, handler>>

----------------------------------------------------------------------------

Next ==
    \/ CommandInvoke
    \/ CommandAcked
    \/ CommandLoadingSent
    \/ CommandChannelsListed
    \/ CommandNotFoundSent
    \/ CommandProgressSent
    \/ CommandTimezoneFetched
    \/ CommandHistoryFetched
    \/ CommandNoMessagesSent
    \/ CommandInfoFetched
    \/ CommandSummaryGenerated
    \/ CommandPosted
    \/ CommandSuccessNotified
    \/ CommandErrorResponded
    \/ CommandFallbackSent
    \/ ShortcutInvoke
    \/ ShortcutAcked
    \/ ShortcutLoadingSent
    \/ ShortcutThreadFetched
    \/ ShortcutParentChecked
    \/ ShortcutHistoryFetched
    \/ ShortcutNoContentSent
    \/ ShortcutSummaryGenerated
    \/ ShortcutPosted
    \/ ShortcutSuccessNotified
    \/ ShortcutErrorNotified

Spec == Init /\ [][Next]_vars

----------------------------------------------------------------------------
(* Vocabulary of the properties *)

Requester == IF trigger = "shortcut" THEN shortcut.user ELSE command.user_id
InvokingChannel == IF trigger = "shortcut" THEN shortcut.channel ELSE command.channel_id

IsWork(c) == c.op /= "ack"
IsFetch(c) == c.op \in {"conversations.replies", "conversations.history"}
IsCompletion(c) == c.op = "chat.completions.create"
IsPublicPost(c) == c.op = "chat.postMessage"

\* a notice only the requesting user sees
PrivateNotice(c) ==
    /\ c.op \in {"chat.postEphemeral", "respond"}
    /\ c.mode \in {"ephemeral", "ephemeral_replace"}
    /\ c.user = Requester
    /\ c.channel = InvokingChannel

ErrorRaised == local.error /= NoError

\* the notice the catch block of the trigger sends for the caught error
ErrorNotice(c) ==
    /\ ErrorRaised
    /\ PrivateNotice(c)
    /\ c.text \in {ShortcutErrorMessage(local.error),
                   formatErrorMessage(local.error, CommandDefaultErrorText),
                   formatErrorMessage(local.error, CommandDefaultErrorText) \o FallbackSuffix}

TaskEnded == task \in {"done", "uncaught"}

TypeOK ==
    /\ trigger \in {"shortcut", "command"}
    /\ handler \in {"idle", "running", "returned", "rejected"}
    /\ task \in {"notstarted", "running", "done", "uncaught"}
    /\ \A i \in DOMAIN calls : calls[i].res \in {"pending", "ok", "fail"}
    /\ \A i \in 1..(Len(calls) - 1) : calls[i].res /= "pending"

----------------------------------------------------------------------------
(* C1: for both triggers the acknowledgment completes before any fetch,    *)
(* summarize, post or notification call is issued, and the handler has     *)
(* returned by the time that work is outstanding: it does not wait for it. *)
C1_AckBeforeWork ==
    \A i \in DOMAIN calls :
        IsWork(calls[i]) =>
            /\ i > 1
            /\ calls[1].op = "ack"
            /\ calls[1].res = "ok"
            /\ handler = "returned"

\* the first call of the background work is outstanding and the handler is gone
C1_Witness ==
    /\ Len(calls) = 2
    /\ IsWork(calls[2])
    /\ calls[2].res = "pending"
    /\ handler = "returned"

(* C2: a public message is sent only on full success: when chat.postMessage *)
(* is issued every earlier call has completed without raising, a message   *)
(* fetch is among them, generateSummary has returned a result and no error *)
(* was caught; nothing else is ever sent publicly.                         *)
C2_PublicOnlyOnSuccess ==
    \A i \in DOMAIN calls :
        calls[i].mode = "public" =>
            /\ IsPublicPost(calls[i])
            /\ \A j \in 1..(i - 1) : calls[j].res = "ok" /\ ~ErrorNotice(calls[j])
            /\ \E j \in 1..(i - 1) : IsFetch(calls[j])
            /\ local.result /= NoResult
            /\ (i = Len(calls) /\ calls[i].res = "pending") => ~ErrorRaised
            /\ \A j \in DOMAIN calls : calls[j].mode = "public" => j = i

\* both triggers come to the point of posting
C2_Witness ==
    /\ \E i \in DOMAIN calls : IsPublicPost(calls[i]) /\ calls[i].res = "ok"
    /\ \E i \in DOMAIN calls : IsCompletion(calls[i]) /\ calls[i].res = "ok"

(* C3 as stated: every failure path of the background work (an error was  *)
(* caught, the channel was not found, or the shortcut is not a message     *)
(* action) ends with a private notice sent to the requesting user.         *)
NotMessageAction == trigger = "shortcut" /\ shortcut.type /= "message_action"
ChannelNotFound == \E i \in DOMAIN logged : logged[i] = "Channel not found"

C3_EveryFailureNotified ==
    (TaskEnded /\ (ErrorRaised \/ ChannelNotFound \/ NotMessageAction)) =>
        PrivateNotice(Last)

(* C3 amended: every failure path of the background work of a slash        *)
(* command or of a message-action shortcut ends with a private notice sent *)
(* to the requesting user (the error notice, or the not-found notice); a   *)
(* shortcut that is not a message action is only logged: after ack no call *)
(* is made for it at all.                                                  *)
C3_FailureNotifiedUnlessNotMessageAction ==
    /\ (TaskEnded /\ ErrorRaised) =>
           /\ PrivateNotice(Last)
           /\ \E i \in DOMAIN calls : ErrorNotice(calls[i])
    /\ (TaskEnded /\ ChannelNotFound /\ ~ErrorRaised) =>
           /\ PrivateNotice(Last)
           /\ Last.text = ChannelNotFoundText(local.targetChannel)
    /\ (TaskEnded /\ NotMessageAction) =>
           /\ Len(calls) = 1
           /\ ~ErrorRaised
           /\ logged = <<"This shortcut must be used on a message.">>

\* the public post failed and the task ended after its error notice
C3_Witness ==
    /\ TaskEnded
    /\ ErrorRaised
    /\ \E i \in DOMAIN calls : IsPublicPost(calls[i]) /\ calls[i].res = "fail"
    /\ ErrorNotice(Last)

(* C4: the background task never ends with an uncaught exception, and once *)
(* the handler has returned to the platform its outcome never changes,     *)
(* whatever fails in the task, the error notification included.            *)
C4_NoUncaughtException ==
    /\ task /= "uncaught"
    /\ task /= "notstarted" => handler = "returned"
    /\ handler = "rejected" => (task = "notstarted" /\ Len(calls) = 1)

\* the error notification itself failed, and the task still ended normally
C4_Witness ==
    /\ task = "done"
    /\ Last.res = "fail"
    /\ ErrorNotice(Last)

----------------------------------------------------------------------------
(* Shortcut scope resolution *)

\* the non-empty texts of a list of messages, in order
TextsOf(msgs) ==
    SelectSeq([i \in DOMAIN msgs |-> msgs[i].text], LAMBDA t : t /= "" /\ t /= NoVal)

StartsWithTitle(text, title) == Len(text) >= Len(title) /\ SubSeq(text, 1, Len(title)) = title

IsReplies(c) == c.op = "conversations.replies"
IsHistory(c) == c.op = "conversations.history"
RepliesReturned == \E i \in DOMAIN calls : IsReplies(calls[i]) /\ calls[i].res = "ok"
HistoryReturned == \E i \in DOMAIN calls : IsHistory(calls[i]) /\ calls[i].res = "ok"

\* messagesToSummarize, summaryTitle and replyThreadTs have been assigned
ScopeResolved == trigger = "shortcut" /\ local.summaryTitle /= <<>>

(* C5: when the shortcut's message carries thread_ts, the thread is fetched *)
(* with thread_ts (not with the message's own ts), the batch is the texts  *)
(* of the fetched thread messages, and the summary is posted as a reply to *)
(* thread_ts under the thread header; the channel history is never read.   *)
C5_ThreadReply ==
    (trigger = "shortcut" /\ Truthy(shortcut.thread_ts)) =>
        /\ \A i \in DOMAIN calls :
             /\ IsReplies(calls[i]) =>
                    calls[i].ts = shortcut.thread_ts /\ calls[i].channel = shortcut.channel
             /\ ~IsHistory(calls[i])
             /\ IsCompletion(calls[i]) => calls[i].text = TextsOf(local.threadMessages)
             /\ IsPublicPost(calls[i]) =>
                    /\ calls[i].ts = shortcut.thread_ts
                    /\ calls[i].channel = shortcut.channel
                    /\ StartsWithTitle(calls[i].text, ThreadSummaryTitle)
        /\ (RepliesReturned /\ local.threadMessages /= <<>>) =>
             /\ ScopeResolved
             /\ local.messagesToSummarize = TextsOf(local.threadMessages)
             /\ local.replyThreadTs = shortcut.thread_ts
             /\ local.summaryTitle = ThreadSummaryTitle
        /\ (Len(calls) >= 3 /\ calls[2].res = "ok") => IsReplies(calls[3])

\* a reply of a thread rooted elsewhere was selected and the summary was posted
C5_Witness ==
    /\ trigger = "shortcut"
    /\ Truthy(shortcut.thread_ts)
    /\ shortcut.thread_ts /= shortcut.ts
    /\ \E i \in DOMAIN calls : IsPublicPost(calls[i]) /\ calls[i].res = "ok"

(* C6: without thread_ts, when the replies fetched for the selected message *)
(* are more than one message, the scope is the thread of that message: the *)
(* batch is the texts of all fetched messages and the reply target is the  *)
(* message's ts, whether or not the payload carries inline text.           *)
C6_ThreadParent ==
    (/\ trigger = "shortcut"
     /\ ~Truthy(shortcut.thread_ts)
     /\ RepliesReturned
     /\ Len(local.threadMessages) > 1) =>
        /\ ScopeResolved
        /\ local.messagesToSummarize = TextsOf(local.threadMessages)
        /\ local.replyThreadTs = shortcut.ts
        /\ local.summaryTitle = ThreadSummaryTitle
        /\ \A i \in DOMAIN calls :
             /\ IsReplies(calls[i]) => calls[i].ts = shortcut.ts
             /\ ~IsHistory(calls[i])
             /\ IsCompletion(calls[i]) => calls[i].text = TextsOf(local.threadMessages)
             /\ IsPublicPost(calls[i]) =>
                    /\ calls[i].ts = shortcut.ts
                    /\ StartsWithTitle(calls[i].text, ThreadSummaryTitle)

\* a parent with a reply and inline text: the thread was summarized and posted
C6_Witness ==
    /\ trigger = "shortcut"
    /\ ~Truthy(shortcut.thread_ts)
    /\ Truthy(shortcut.text)
    /\ Len(local.threadMessages) > 1
    /\ \E i \in DOMAIN calls : IsCompletion(calls[i]) /\ Len(calls[i].text) > 1
    /\ \E i \in DOMAIN calls : IsPublicPost(calls[i])

(* C7: without thread_ts, when the reply fetch returns at most one message *)
(* and the payload carries inline text t, the batch is exactly <<t>>, the  *)
(* reply target is the message itself and the channel history is not read. *)
C7_Standalone ==
    (/\ trigger = "shortcut"
     /\ ~Truthy(shortcut.thread_ts)
     /\ RepliesReturned
     /\ Len(local.threadMessages) <= 1
     /\ Truthy(shortcut.text)) =>
        /\ ScopeResolved
        /\ local.messagesToSummarize = <<shortcut.text>>
        /\ local.replyThreadTs = shortcut.ts
        /\ local.summaryTitle = MessageSummaryTitle
        /\ \A i \in DOMAIN calls :
             /\ ~IsHistory(calls[i])
             /\ IsCompletion(calls[i]) => calls[i].text = <<shortcut.text>>
             /\ IsPublicPost(calls[i]) =>
                    /\ calls[i].ts = shortcut.ts
                    /\ StartsWithTitle(calls[i].text, MessageSummaryTitle)

\* only the root came back, whose text differs from the inline text "hello"
C7_Witness ==
    /\ trigger = "shortcut"
    /\ ~Truthy(shortcut.thread_ts)
    /\ shortcut.text = "hello"
    /\ RepliesReturned
    /\ Len(local.threadMessages) = 1
    /\ \E i \in DOMAIN calls : IsCompletion(calls[i]) /\ calls[i].text = <<"hello">>

(* C8 as stated: whenever scope resolution ends in THREAD_REPLY,           *)
(* THREAD_PARENT or a STANDALONE state, the text batch is non-empty and a  *)
(* reply-target id is set.                                                 *)
C8_BatchNonEmpty ==
    ScopeResolved =>
        /\ Len(local.messagesToSummarize) > 0
        /\ Truthy(local.replyThreadTs)

(* C8 amended: whenever scope resolution ends in THREAD_REPLY,             *)
(* THREAD_PARENT or a STANDALONE state, a reply-target id is set (the      *)
(* thread root, or the message itself); the batch is one non-empty text in *)
(* the STANDALONE states, and in the thread states it is the non-empty     *)
(* texts of the fetched messages: it is empty exactly when no fetched      *)
(* message has text, and then only the no-content notice follows.          *)
C8_ReplyTargetSetBatchMayBeEmpty ==
    ScopeResolved =>
        /\ Truthy(local.replyThreadTs)
        /\ local.replyThreadTs =
               (IF Truthy(shortcut.thread_ts) THEN shortcut.thread_ts ELSE shortcut.ts)
        /\ local.summaryTitle \in {ThreadSummaryTitle, MessageSummaryTitle}
        /\ local.summaryTitle = MessageSummaryTitle =>
               /\ Len(local.messagesToSummarize) = 1
               /\ Truthy(local.messagesToSummarize[1])
        /\ local.summaryTitle = ThreadSummaryTitle =>
               /\ local.messagesToSummarize = TextsOf(local.threadMessages)
               /\ (local.messagesToSummarize = <<>>) <=>
                      (\A i \in DOMAIN local.threadMessages :
                           ~Truthy(local.threadMessages[i].text))
        /\ local.messagesToSummarize = <<>> =>
               /\ \A i \in DOMAIN calls : ~IsCompletion(calls[i]) /\ ~IsPublicPost(calls[i])
               /\ \E i \in DOMAIN calls :
                      PrivateNotice(calls[i]) /\ calls[i].text = NoContentText

\* a thread was fetched whose messages carry no text
C8_Witness ==
    /\ ScopeResolved
    /\ local.threadMessages /= <<>>
    /\ local.messagesToSummarize = <<>>
    /\ Last.text = NoContentText

(* C9: FAILED.  Without thread_ts, replies and inline text, when the       *)
(* single-message history fetch returns no message or a message without    *)
(* text, one ephemeral notice is sent to the requester and nothing else    *)
(* follows: no completion call and no public post.                         *)
NoUsableMessage(h) ==
    \/ ~h.hasMessages
    \/ h.messages = <<>>
    \/ ~Truthy(h.messages[1].text)

ScopeFailed ==
    /\ trigger = "shortcut"
    /\ ~Truthy(shortcut.thread_ts)
    /\ ~Truthy(shortcut.text)
    /\ RepliesReturned
    /\ Len(local.threadMessages) <= 1
    /\ HistoryReturned
    /\ NoUsableMessage(local.history)

C9_FailedScope ==
    ScopeFailed =>
        /\ ~ScopeResolved
        /\ \A i \in DOMAIN calls : ~IsCompletion(calls[i]) /\ ~IsPublicPost(calls[i])
        /\ \E h \in DOMAIN calls :
             /\ IsHistory(calls[h])
             /\ Len(calls) = h + 1
             /\ calls[h + 1].op = "chat.postEphemeral"
             /\ PrivateNotice(calls[h + 1])
        /\ pc \in {"s_errnotice", "done"}

\* the history returned the message, without text, and the task has ended
C9_Witness ==
    /\ ScopeFailed
    /\ local.history.messages /= <<>>
    /\ TaskEnded
    /\ Last.res = "ok"

(* C10: in the shortcut path every no-content case (a thread whose         *)
(* messages have no text, a standalone message without text) produces the  *)
(* calm no-content notice and is not treated as a failure: the notice that *)
(* follows the fetch is the no-content notice, not an 'Error: ...' text,   *)
(* and the error path is not entered for it.                               *)
ThreadWithoutText ==
    /\ ScopeResolved
    /\ local.summaryTitle = ThreadSummaryTitle
    /\ local.messagesToSummarize = <<>>

StandaloneWithoutText ==
    /\ ScopeFailed
    /\ local.history.hasMessages
    /\ local.history.messages /= <<>>

LastFetch == CHOOSE f \in DOMAIN calls :
                 IsFetch(calls[f]) /\ \A g \in DOMAIN calls : IsFetch(calls[g]) => g <= f

C10_NoContentIsCalm ==
    (ThreadWithoutText \/ StandaloneWithoutText) =>
        /\ Len(calls) > LastFetch
        /\ PrivateNotice(calls[LastFetch + 1])
        /\ calls[LastFetch + 1].text = NoContentText
        /\ Head(calls[LastFetch + 1].text) /= "Error: "
        /\ ~ErrorNotice(calls[LastFetch + 1])
        /\ \A i \in DOMAIN logged : logged[i] /= "Error fetching message history:"

----------------------------------------------------------------------------
(* C11: in the slash-command path, whenever the fetched window holds       *)
(* nothing to summarize (zero messages, or only messages with empty text), *)
(* the call that follows the fetch is the no-messages notice to the        *)
(* requester and nothing is posted to the public channel.                  *)
IsWindowFetch(c) == c.op = "conversations.history" /\ c.oldest /= NoTime

WindowFetched ==
    /\ trigger = "command"
    /\ \E i \in DOMAIN calls : IsWindowFetch(calls[i]) /\ calls[i].res = "ok"

NothingToSummarize == WindowFetched /\ extractMessageTexts(local.messages) = <<>>

C11_EmptyWindowIsPrivate ==
    NothingToSummarize =>
        /\ \A i \in DOMAIN calls : ~IsPublicPost(calls[i])
        /\ Len(calls) > LastFetch
        /\ PrivateNotice(calls[LastFetch + 1])
        /\ calls[LastFetch + 1].text = NoMessagesText

----------------------------------------------------------------------------
(* The services called directly.  trigger names the method that is called,  *)
(* local holds its arguments, its locals and what it returns or raises, and *)
(* calls the platform calls it issues.                                      *)

ServiceOps == {"generateSummary", "getTodayMessages", "formatSummaryResponse",
               "formatErrorMessage"}

\* generateSummary(messages): any list of strings, or no list at all
SummaryArguments ==
    {[InitLocal EXCEPT !.messagesToSummarize = m] : m \in SeqsUpTo(MsgTexts, MaxMsgs)}
    \cup {[InitLocal EXCEPT !.messagesDefined = FALSE]}

\* the guard is never taken: the completion is requested for an empty list too
GenerateSummaryAlwaysCalls(loc) == FALSE

\* OpenAIService.generateSummary, line 16: !messages || messages.length === 0
GenerateSummaryReturnsEarly(loc) ==
    ~loc.messagesDefined \/ SummaryWithoutCall(loc.messagesToSummarize)

\* OpenAIService.generateSummary is called and runs to its await, lines 14-42
GenerateSummaryCalled ==
    /\ trigger = "generateSummary"
    /\ pc = "idle"
    /\ IF GenerateSummaryReturnsEarly(local)
       THEN /\ local' = [local EXCEPT !.result = NoMessagesResult]
            /\ pc' = "returned"
            /\ UNCHANGED calls
       ELSE /\ calls' = Append(calls, Completion(local.messagesToSummarize))
            /\ pc' = "g_completion"
            /\ UNCHANGED local
    /\ UNCHANGED <<other, req, res, trigger, shortcut, command, nodeEnv, handler, task, logged>>

\* the completion settles, lines 42-78
GenerateSummarySettled ==
    /\ trigger = "generateSummary"
    /\ pc = "g_completion"
    /\ \E r \in CompletionResults :
         LET out == GenerateSummary(r) IN
         IF out.threw
         THEN /\ calls' = Settle("fail")
              /\ local' = [local EXCEPT !.response = r, !.error = out.err]
              /\ logged' = Append(logged, "Error generating summary with OpenAI:")
              /\ pc' = "raised"
         ELSE /\ calls' = Settle("ok")
              /\ local' = [local EXCEPT !.response = r, !.result = out.value]
              /\ logged' = IF r.content.json THEN logged
                           ELSE Append(logged, "Error parsing OpenAI response")
              /\ pc' = "returned"
    /\ UNCHANGED <<other, req, res, trigger, shortcut, command, nodeEnv, handler, task>>

\* the offsets users.info reports, in seconds east of UTC
TzOffsets == {-43200, 0, 19800, 32400, 45900}

\* the instants at which the window is computed: DaySteps steps of three hours from
\* the start of a UTC day, each taken exactly and one second later
DaySteps == 8
DayStart == 1699920000
ServiceNows ==
    {DayStart + 10800 * k + d : k \in 0..(DaySteps - 1), d \in {0, 1}} \cup Nows

ServiceUserInfoResults ==
    {[threw |-> TRUE, ok |-> FALSE, hasUser |-> FALSE, tz_offset |-> NoTz],
     [threw |-> FALSE, ok |-> FALSE, hasUser |-> FALSE, tz_offset |-> NoTz],
     [threw |-> FALSE, ok |-> TRUE, hasUser |-> FALSE, tz_offset |-> NoTz]}
    \cup {[threw |-> FALSE, ok |-> TRUE, hasUser |-> TRUE, tz_offset |-> z] : z \in TzOffsets}

\* getTodayMessages(channelId, userId?): the user id is optional
TodayArguments == [text : {<<>>}, channel_id : {ChannelC1}, user_id : {NoVal} \cup Users]

\* SlackService.getTodayMessages is called and runs to its first await, lines 56-84
GetTodayMessagesCalled ==
    /\ trigger = "getTodayMessages"
    /\ pc = "idle"
    /\ IF Truthy(command.user_id)
       THEN /\ calls' = Append(calls, UsersInfo(command.user_id))
            /\ pc' = "t_timezone"
            /\ UNCHANGED local
       ELSE \E now \in ServiceNows, processTz \in ProcessTzOffsets :
            /\ calls' = Append(calls,
                   HistorySince(command.channel_id, StartOfDay(now, 0, processTz)))
            /\ pc' = "t_history"
            /\ local' = [local EXCEPT !.tzOffset = 0, !.now = now, !.processTz = processTz]
    /\ UNCHANGED <<other, req, res, trigger, shortcut, command, nodeEnv, handler, task, logged>>

\* getUserTimezone settles; the window start is computed and the window requested
GetTodayMessagesTimezone ==
    /\ trigger = "getTodayMessages"
    /\ pc = "t_timezone"
    /\ \E r \in ServiceUserInfoResults, now \in ServiceNows, processTz \in ProcessTzOffsets :
         LET tzOffset == GetUserTimezone(r) IN
         /\ calls' = Append(Settle("ok"),
                HistorySince(command.channel_id, StartOfDay(now, tzOffset, processTz)))
         /\ pc' = "t_history"
         /\ local' = [local EXCEPT !.userInfo = r, !.tzOffset = tzOffset, !.now = now,
                                   !.processTz = processTz]
         /\ IF r.threw
            THEN logged' = Append(logged, "Error getting user timezone:")
            ELSE UNCHANGED logged
    /\ UNCHANGED <<other, req, res, trigger, shortcut, command, nodeEnv, handler, task>>

\* conversations.history settles, lines 80-90
GetTodayMessagesFetched ==
    /\ trigger = "getTodayMessages"
    /\ pc = "t_history"
    /\ \E r \in FetchResults :
         IF r.threw
         THEN /\ calls' = Settle("fail")
              /\ local' = [local EXCEPT !.error = r.err]
              /\ logged' = Append(logged, "Error getting channel messages:")
              /\ pc' = "raised"
         ELSE /\ calls' = Settle("ok")
              /\ local' = [local EXCEPT !.messages = IF r.hasMessages THEN r.messages ELSE <<>>]
              /\ pc' = "returned"
              /\ UNCHANGED logged
    /\ UNCHANGED <<other, req, res, trigger, shortcut, command, nodeEnv, handler, task>>

\* formatSummaryResponse(topic, summary, actionItems): at most MaxItems action items
MaxItems == 2
FormatArguments ==
    {[InitLocal EXCEPT !.result = SummaryResult(t, s, a)] :
        t \in {"Launch Plan", "Discussion"},
        s \in {"Team decided to ship Friday.", "No summary generated."},
        a \in SeqsUpTo({"Update changelog", "Notify support"}, MaxItems)}

\* SlackService.formatSummaryResponse is called and returns, lines 205-216
FormatSummaryResponseCalled ==
    /\ trigger = "formatSummaryResponse"
    /\ pc = "idle"
    /\ local' = [local EXCEPT !.text = formatSummaryResponse(local.result.topic,
                                           local.result.summary, local.result.actionItems)]
    /\ pc' = "returned"
    /\ UNCHANGED <<other, req, res, trigger, shortcut, command, nodeEnv, handler, task, calls, logged>>

\* formatErrorMessage(error, defaultMessage): an Error whose message is made of at
\* most MaxParts parts, or a thrown value that is not an Error; the default message
\* is the one the parameter defaults to or the one the slash command passes
MaxParts == 2
MessageParts == {"quota", "rate limit", "Rate limit", "not_in_channel", "not_authed",
                 "invalid_auth", "missing_scope", "boom"}
ErrorArguments ==
    {[InitLocal EXCEPT !.error = e, !.errorMessage = d] :
        e \in {Err(m) : m \in SeqsUpTo(MessageParts, MaxParts)} \cup {NonError},
        d \in {<<"An error occurred.">>, CommandDefaultErrorText}}

\* formatErrorMessage is called and returns, lines 10-37
FormatErrorMessageCalled ==
    /\ trigger = "formatErrorMessage"
    /\ pc = "idle"
    /\ local' = [local EXCEPT !.text = formatErrorMessage(local.error, local.errorMessage)]
    /\ pc' = "returned"
    /\ UNCHANGED <<other, req, res, trigger, shortcut, command, nodeEnv, handler, task, calls,
                   logged>>

ServiceInit ==
    /\ other = NoTrigger
    /\ req = NoRequest
    /\ res = NoReply
    /\ trigger \in ServiceOps
    /\ shortcut = NoShortcut
    /\ command \in (IF trigger = "getTodayMessages" THEN TodayArguments ELSE {NoCommand})
    /\ nodeEnv = "production"
    /\ pc = "idle"
    /\ handler = "idle"
    /\ task = "notstarted"
    /\ calls = <<>>
    /\ local \in (CASE trigger = "generateSummary" -> SummaryArguments
                    [] trigger = "formatSummaryResponse" -> FormatArguments
                    [] trigger = "formatErrorMessage" -> ErrorArguments
                    [] OTHER -> {InitLocal})
    /\ logged = <<>>

ServiceNext ==
    \/ GenerateSummaryCalled
    \/ GenerateSummarySettled
    \/ GetTodayMessagesCalled
    \/ GetTodayMessagesTimezone
    \/ GetTodayMessagesFetched
    \/ FormatSummaryResponseCalled
    \/ FormatErrorMessageCalled

ServiceSpec == ServiceInit /\ [][ServiceNext]_vars

----------------------------------------------------------------------------
(* HTTP entry point: functions/src/index.ts                                *)
(*                                                                         *)
(* RequestSpec follows one HTTP request through the middleware and routes  *)
(* of mainApp in their order of registration.  pc is the layer the request *)
(* has reached, res the response written so far, logged what the layers    *)
(* log, handler whether the request was handed to the Bolt listeners.      *)

\* the request bodies the platform runtime hands over already parsed
Challenges == {"c1", "c2"}
Bodies ==
    {NoRequestBody}
    \cup {[present |-> TRUE, type |-> "url_verification", challenge |-> c] : c \in Challenges}
    \cup {[present |-> TRUE, type |-> t, challenge |-> NoVal] : t \in {"event_callback", NoVal}}

Methods == {"GET", "POST"}
Paths == {"/", "/slack/events", "/test-openai", "/unknown"}

\* signed: the request carries a signature that matches the signing secret
Requests == [method : Methods, path : Paths, body : Bodies, signed : BOOLEAN]

\* req.body && req.body.type === 'url_verification'
IsUrlVerification(r) == r.body.present /\ r.body.type = "url_verification"

\* res.status(status), res.setHeader('Content-Type', type), res.send(body)
Send(r, status, type, body) ==
    [r EXCEPT !.sent = TRUE, !.status = status, !.type = type, !.body = body]

\* the 'finish' listener of lines 75-82 runs when a response it was registered on ends
Finished(r, log) == IF r.onFinish THEN Append(log, "Request processed in") ELSE log

\* the first middleware left out: every request goes on to the logging middleware
TimingMiddlewarePassesAll ==
    /\ trigger = "request"
    /\ pc = "use62"
    /\ res' = [res EXCEPT !.onFinish = TRUE]
    /\ pc' = "use88"
    /\ UNCHANGED <<other, req, trigger, shortcut, command, nodeEnv, handler, task, calls, local,
                   logged>>

\* mainApp.use, lines 62-85
TimingMiddleware ==
    /\ trigger = "request"
    /\ pc = "use62"
    /\ IF IsUrlVerification(req)
       THEN /\ logged' = Append(logged, "Fast-tracking URL verification")
            /\ res' = Send(res, 200, "text/plain", req.body.challenge)
            /\ pc' = "done"
       ELSE /\ res' = [res EXCEPT !.onFinish = TRUE]
            /\ pc' = "use88"
            /\ UNCHANGED logged
    /\ UNCHANGED <<other, req, trigger, shortcut, command, nodeEnv, handler, task, calls, local>>

\* mainApp.use, lines 88-96
LoggingMiddleware ==
    /\ trigger = "request"
    /\ pc = "use88"
    /\ logged' = Append(logged, "Received request")
    /\ pc' = "routes"
    /\ UNCHANGED <<other, req, res, trigger, shortcut, command, nodeEnv, handler, task, calls,
                   local>>

\* mainApp.post('/'), lines 99-112
RootPost ==
    /\ trigger = "request"
    /\ pc = "routes"
    /\ req.method = "POST" /\ req.path = "/"
    /\ IF IsUrlVerification(req)
       THEN /\ res' = Send(res, 200, "text/plain", req.body.challenge)
            /\ logged' = Finished(res, Append(logged,
                             "Received challenge verification at root endpoint"))
       ELSE /\ res' = Send(res, 307, "text/plain", "/slack/events")
            /\ logged' = Finished(res, Append(logged, "Forwarding request to Bolt app"))
    /\ pc' = "done"
    /\ UNCHANGED <<other, req, trigger, shortcut, command, nodeEnv, handler, task, calls, local>>

\* mainApp.get('/'), lines 115-118
RootGet ==
    /\ trigger = "request"
    /\ pc = "routes"
    /\ req.method = "GET" /\ req.path = "/"
    /\ res' = Send(res, 200, "text/html", "Slack Summary Bot is running!")
    /\ logged' = Finished(res, Append(logged, "Received GET request at root"))
    /\ pc' = "done"
    /\ UNCHANGED <<other, req, trigger, shortcut, command, nodeEnv, handler, task, calls, local>>

\* the three test messages of lines 126-130
TestMessages == <<"test message 1", "test message 2", "test message 3">>

\* mainApp.get('/test-openai') up to its await, lines 121-133
TestOpenAICalled ==
    /\ trigger = "request"
    /\ pc = "routes"
    /\ req.method = "GET" /\ req.path = "/test-openai"
    /\ logged' = Append(logged, "Testing OpenAI connection")
    /\ calls' = Append(calls, Completion(TestMessages))
    /\ pc' = "test_openai"
    /\ UNCHANGED <<other, req, res, trigger, shortcut, command, nodeEnv, handler, task, local>>

\* generateSummary settles and the test endpoint answers, lines 133-154
TestOpenAISettled ==
    /\ trigger = "request"
    /\ pc = "test_openai"
    /\ \E r \in CompletionResults :
         LET out == GenerateSummary(r)
             log == Append(logged, "Error generating summary with OpenAI:") IN
         IF out.threw
         THEN /\ calls' = Settle("fail")
              /\ local' = [local EXCEPT !.error = out.err]
              /\ res' = Send(res, 500, "application/json", "success: false")
              /\ logged' = Finished(res, Append(log, "Test endpoint error:"))
         ELSE /\ calls' = Settle("ok")
              /\ local' = [local EXCEPT !.result = out.value]
              /\ res' = Send(res, 200, "application/json", "success: true")
              /\ logged' = Finished(res, IF r.content.json THEN logged
                                         ELSE Append(logged, "Error parsing OpenAI response"))
    /\ pc' = "done"
    /\ UNCHANGED <<other, req, trigger, shortcut, command, nodeEnv, handler, task>>

\* no route of mainApp matches: the request reaches the mounted router, line 193
RoutesPassed ==
    /\ trigger = "request"
    /\ pc = "routes"
    /\ ~(req.method = "POST" /\ req.path = "/")
    /\ ~(req.method = "GET" /\ req.path \in {"/", "/test-openai"})
    /\ pc' = "router"
    /\ UNCHANGED <<other, req, res, trigger, shortcut, command, nodeEnv, handler, task, calls,
                   local, logged>>

\* the route ExpressReceiver registers on its router for POST /slack/events, lines
\* 158-162: a request whose signature does not verify is refused, a verified one is
\* handed to the listeners registered on the app, lines 175-178
ReceiverEndpoint ==
    /\ trigger = "request"
    /\ pc = "router"
    /\ req.method = "POST" /\ req.path = "/slack/events"
    /\ IF req.signed
       THEN /\ handler' = "invoked"
            /\ res' = Send(res, 200, NoVal, "")
       ELSE /\ res' = Send(res, 401, NoVal, "")
            /\ UNCHANGED handler
    /\ logged' = Finished(res, logged)
    /\ pc' = "done"
    /\ UNCHANGED <<other, req, trigger, shortcut, command, nodeEnv, task, calls, local>>

\* receiver.router.use, lines 181-190, registered after the receiver's own route;
\* a request it passes on matches nothing more and is answered 404
RouterMiddleware ==
    /\ trigger = "request"
    /\ pc = "router"
    /\ ~(req.method = "POST" /\ req.path = "/slack/events")
    /\ IF IsUrlVerification(req)
       THEN /\ res' = Send(res, 200, "text/plain", req.body.challenge)
            /\ logged' = Finished(res, Append(logged,
                             "Received challenge verification at Bolt endpoint"))
       ELSE /\ res' = Send(res, 404, "text/html", "Cannot " \o req.method \o " " \o req.path)
            /\ logged' = Finished(res, logged)
    /\ pc' = "done"
    /\ UNCHANGED <<other, req, trigger, shortcut, command, nodeEnv, handler, task, calls, local>>

RequestInit ==
    /\ other = NoTrigger
    /\ req \in Requests
    /\ res = NoReply
    /\ trigger = "request"
    /\ shortcut = NoShortcut
    /\ command = NoCommand
    /\ nodeEnv = "production"
    /\ pc = "use62"
    /\ handler = "idle"
    /\ task = "notstarted"
    /\ calls = <<>>
    /\ local = InitLocal
    /\ logged = <<>>

RequestNext ==
    \/ TimingMiddleware
    \/ LoggingMiddleware
    \/ RootPost
    \/ RootGet
    \/ TestOpenAICalled
    \/ TestOpenAISettled
    \/ RoutesPassed
    \/ ReceiverEndpoint
    \/ RouterMiddleware

RequestSpec == RequestInit /\ [][RequestNext]_vars

----------------------------------------------------------------------------
(* C12: generateSummary called with an empty or a missing message list     *)
(* returns the fixed fallback {topic: "No topic", summary: "No messages to *)
(* summarize.", actionItems: []}, raises nothing and issues no call to the *)
(* completion API.                                                         *)
SummaryCallEnded == trigger = "generateSummary" /\ pc \in {"returned", "raised"}

EmptyOrMissingList == ~local.messagesDefined \/ local.messagesToSummarize = <<>>

C12_EmptyListFallback ==
    (trigger = "generateSummary" /\ pc /= "idle" /\ EmptyOrMissingList) =>
        /\ pc = "returned"
        /\ local.result = [topic |-> "No topic", summary |-> "No messages to summarize.",
                           actionItems |-> <<>>]
        /\ local.error = NoError
        /\ calls = <<>>

C12_Witness ==
    /\ SummaryCallEnded
    /\ ~local.messagesDefined
    /\ local.result.topic = "No topic"

----------------------------------------------------------------------------
(* C13, as stated: for every completion response body that is not valid    *)
(* JSON, generateSummary returns the fixed failure result (summary "Failed *)
(* to parse the AI-generated summary.", no action items) and does not      *)
(* raise, so the step that follows in the trigger is the public post of    *)
(* that result and not an error notice.                                    *)
CompletionSettled ==
    /\ trigger \in {"shortcut", "command"}
    /\ \E i \in DOMAIN calls : IsCompletion(calls[i]) /\ calls[i].res /= "pending"

CompletionIndex == CHOOSE i \in DOMAIN calls : IsCompletion(calls[i])

\* the completion returned a body, and JSON.parse rejects it
BodyNotJson ==
    /\ CompletionSettled
    /\ ~local.response.threw
    /\ local.response.content.present
    /\ ~local.response.content.json

ParseFailureRecovered ==
    /\ calls[CompletionIndex].res = "ok"
    /\ local.result.summary = "Failed to parse the AI-generated summary."
    /\ local.result.actionItems = <<>>
    /\ Len(calls) > CompletionIndex
    /\ IsPublicPost(calls[CompletionIndex + 1])
    /\ Includes(calls[CompletionIndex + 1].text, "Failed to parse the AI-generated summary.")

C13_NotJsonNeverRaises == BodyNotJson => ParseFailureRecovered

(* C13, amended: the fixed failure result is returned for every body that  *)
(* is not empty and is not valid JSON; for an empty body (or no body)      *)
(* generateSummary raises 'No content returned from OpenAI' and the        *)
(* trigger sends the requester an error notice with that message.          *)
NoBody ==
    /\ CompletionSettled
    /\ ~local.response.threw
    /\ (~local.response.content.present \/ local.response.content.empty)

C13_NonEmptyNotJsonRecovered ==
    /\ (BodyNotJson /\ ~local.response.content.empty) => ParseFailureRecovered
    /\ NoBody =>
          /\ calls[CompletionIndex].res = "fail"
          /\ local.error = Err(<<"No content returned from OpenAI">>)
          /\ ~IsPublicPost(Last)
          /\ (trigger = "command" \/ shortcut.type = "message_action") =>
                /\ Len(calls) > CompletionIndex
                /\ ErrorNotice(calls[CompletionIndex + 1])
                /\ calls[CompletionIndex + 1].text
                       = <<"Error: ", "No content returned from OpenAI">>

C13_Witness ==
    /\ BodyNotJson
    /\ ~local.response.content.empty
    /\ IsPublicPost(calls[CompletionIndex + 1])
    /\ calls[CompletionIndex + 1].res = "ok"

----------------------------------------------------------------------------
(* C14, as stated: for a completion response body that is valid JSON,      *)
(* generateSummary returns topic "Discussion" when the topic is missing,   *)
(* summary "No summary generated." when the summary is missing and no      *)
(* action items when actionItems is not a sequence; a field that is        *)
(* present is returned unchanged.                                          *)
JsonParsed ==
    /\ SummaryCallEnded
    /\ calls /= <<>>
    /\ ~local.response.threw
    /\ local.response.content.json

C14_PresentFieldsUnchanged ==
    JsonParsed =>
        LET content == local.response.content IN
        /\ pc = "returned"
        /\ local.result.topic = (IF content.topic = NoVal THEN "Discussion" ELSE content.topic)
        /\ local.result.summary =
               (IF content.summary = NoVal THEN "No summary generated." ELSE content.summary)
        /\ local.result.actionItems =
               (IF content.actionItems = NotArray THEN <<>> ELSE content.actionItems)

(* C14, amended: the substitution is made for a topic or summary that is   *)
(* missing or empty; a topic or summary that is a non-empty string and an  *)
(* actionItems value that is a sequence are returned unchanged.            *)
C14_FalsyFieldsSubstituted ==
    JsonParsed =>
        LET content == local.response.content IN
        /\ pc = "returned"
        /\ local.result.topic =
               (IF content.topic \in {NoVal, ""} THEN "Discussion" ELSE content.topic)
        /\ local.result.summary =
               (IF content.summary \in {NoVal, ""} THEN "No summary generated."
                ELSE content.summary)
        /\ local.result.actionItems =
               (IF content.actionItems = NotArray THEN <<>> ELSE content.actionItems)

C14_Witness ==
    /\ JsonParsed
    /\ local.response.content.topic = NoVal
    /\ local.response.content.summary = "Team decided to ship Friday."
    /\ local.response.content.actionItems = NotArray
    /\ local.result = [topic |-> "Discussion", summary |-> "Team decided to ship Friday.",
                       actionItems |-> <<>>]

----------------------------------------------------------------------------
(* C15: when the completion API call itself fails, generateSummary raises  *)
(* that same error to the trigger and returns no SummaryResult, and the    *)
(* trigger posts nothing publicly: the step that follows is the error      *)
(* path.                                                                   *)
CompletionFailed == CompletionSettled /\ local.response.threw

C15_CompletionFailurePropagates ==
    CompletionFailed =>
        /\ calls[CompletionIndex].res = "fail"
        /\ local.error = local.response.err
        /\ local.result = NoResult
        /\ \A i \in DOMAIN calls : ~IsPublicPost(calls[i])
        /\ \A i \in DOMAIN calls : i > CompletionIndex => ErrorNotice(calls[i])

C15_Witness ==
    /\ CompletionFailed
    /\ local.response.err = Err(<<"You exceeded your current ", "quota">>)
    /\ TaskEnded
    /\ ErrorNotice(Last)
    /\ Last.res = "ok"

----------------------------------------------------------------------------
(* C16: getUserTimezone never raises.  On any failure of the user lookup   *)
(* (exception, non-ok result, missing user, missing offset) it returns 0,  *)
(* the slash command goes on to the window fetch, and the window starts at *)
(* UTC midnight: the start is a multiple of 86400 seconds, not after now   *)
(* and less than a day before it.                                          *)
IsLookup(c) == c.op = "users.info"

LookupIndex == CHOOSE i \in DOMAIN calls : IsLookup(calls[i])

LookupFailed ==
    /\ trigger = "command"
    /\ \E i \in DOMAIN calls : IsLookup(calls[i]) /\ calls[i].res /= "pending"
    /\ \/ local.userInfo.threw
       \/ ~local.userInfo.ok
       \/ ~local.userInfo.hasUser
       \/ local.userInfo.tz_offset = NoTz

LookupFailureAbsorbed ==
    /\ calls[LookupIndex].res = "ok"
    /\ local.tzOffset = 0
    /\ Len(calls) > LookupIndex
    /\ IsWindowFetch(calls[LookupIndex + 1])
    /\ (pc = "c_history" => local.error = NoError)

UtcMidnight(start, now) ==
    /\ start % SecondsPerDay = 0
    /\ start <= now
    /\ now - start < SecondsPerDay

C16_FailedLookupFallsBackToUtc ==
    LookupFailed =>
        /\ LookupFailureAbsorbed
        /\ UtcMidnight(calls[LookupIndex + 1].oldest, local.now)

----------------------------------------------------------------------------
(* C17: for every instant now and every timezone offset in {-43200, 0,     *)
(* 19800, 32400, 45900} seconds, the start instant S that getTodayMessages *)
(* computes is such that S + offset is an exact day boundary (the local    *)
(* clock reads 00:00:00) and S <= now.                                     *)
WindowRequested ==
    /\ trigger = "getTodayMessages"
    /\ calls /= <<>>
    /\ IsWindowFetch(Last)

C17_StartIsLocalMidnight ==
    (WindowRequested /\ local.tzOffset \in TzOffsets) =>
        /\ (Last.oldest + local.tzOffset) % SecondsPerDay = 0
        /\ Last.oldest <= local.now

----------------------------------------------------------------------------
(* C18: a slash command whose argument is omitted (empty, or only white    *)
(* space) takes the invoking channel as its target: no channel listing is  *)
(* requested, the window and the channel name are fetched from the         *)
(* invoking channel and the summary is posted to the invoking channel.     *)
ArgumentOmitted ==
    /\ trigger = "command"
    /\ \A i \in DOMAIN command.text : command.text[i] = " "

IsListing(c) == c.op = "conversations.list"

\* the loading notice went through: the argument has been parsed
ArgumentParsed == Len(calls) >= 3 /\ calls[2].res = "ok"

C18_OmittedArgumentIsInvokingChannel ==
    ArgumentOmitted =>
        /\ \A i \in DOMAIN calls : ~IsListing(calls[i])
        /\ ArgumentParsed =>
              /\ local.targetChannel = command.channel_id
              /\ calls[3] = [Respond(CommandProgressText, "ephemeral_replace")
                                EXCEPT !.res = calls[3].res]
        /\ \A i \in DOMAIN calls :
              (IsWindowFetch(calls[i]) \/ IsPublicPost(calls[i])
                   \/ calls[i].op = "conversations.info")
                  => calls[i].channel = command.channel_id

C18_Witness ==
    /\ ArgumentOmitted
    /\ command.text = <<" ">>
    /\ \E i \in DOMAIN calls :
          /\ IsPublicPost(calls[i])
          /\ calls[i].res = "ok"
          /\ calls[i].channel = command.channel_id

----------------------------------------------------------------------------
(* C19: a slash command whose argument is a channel name, with or without  *)
(* a leading '#', requests the channel list and takes as its target the id *)
(* of the first listed channel whose name equals the name exactly          *)
(* (case-sensitive).  If no listed channel has that name the requester is  *)
(* sent the 'Channel #<name> not found' notice, and no timezone lookup,    *)
(* message fetch, completion call or public post is made.                  *)

\* the argument without the blanks around it and without one leading '#'
ArgumentName ==
    LET text == command.text
        solid == {i \in DOMAIN text : text[i] /= " "}
    IN  IF solid = {} THEN <<>>
        ELSE LET first == CHOOSE i \in solid : \A j \in solid : i <= j
                 last == CHOOSE i \in solid : \A j \in solid : j <= i
                 core == SubSeq(text, first, last)
             IN  IF core[1] = "#" THEN SubSeq(core, 2, Len(core)) ELSE core

\* channel names are lower case; what starts with 'C' is read as a channel id
NameArgument ==
    /\ trigger = "command"
    /\ ArgumentName /= <<>>
    /\ ArgumentName[1] /= "C"

\* the channel list has been returned and is still in scope
ChannelsListed ==
    /\ Len(calls) >= 4
    /\ IsListing(calls[3])
    /\ calls[3].res = "ok"
    /\ pc \in {"c_progress", "c_notfound"}

NameMatches == {k \in DOMAIN local.channels : local.channels[k].name = ArgumentName}

NotFoundNotice(c) ==
    /\ PrivateNotice(c)
    /\ c.text = <<"Channel #">> \o ArgumentName
                    \o <<" not found. Please provide a valid channel name or ID.">>

----------------------------------------------------------------------------
(* C20: the string formatSummaryResponse(topic, summary, actionItems)      *)
(* returns contains, in this order, the topic, the summary and, for each   *)
(* action item i (counted from 1, in input order), the line "i. <item>";   *)
(* the "Action Items" label and the list appear if and only if actionItems *)
(* is not empty.                                                           *)
Formatted == trigger = "formatSummaryResponse" /\ pc = "returned"

\* the line "i. <item>" stands at position p of the text
ItemLineAt(text, p, i, item) ==
    /\ p + 3 <= Len(text)
    /\ text[p] = ToString(i)
    /\ text[p + 1] = ". "
    /\ text[p + 2] = item
    /\ text[p + 3] = "\n"

C20_FormatInOrder ==
    Formatted =>
        LET text == local.text
            items == local.result.actionItems
        IN  /\ \E t, s \in DOMAIN text :
                  /\ t < s
                  /\ text[t] = local.result.topic
                  /\ text[s] = local.result.summary
                  /\ \E at \in [DOMAIN items -> DOMAIN text] :
                        /\ \A i \in DOMAIN items :
                              /\ s < at[i]
                              /\ ItemLineAt(text, at[i], i, items[i])
                        /\ \A i, j \in DOMAIN items : i < j => at[i] + 3 < at[j]
            /\ Includes(text, "*Action Items:*\n") <=> items /= <<>>
            /\ Includes(text, ". ") <=> items /= <<>>

C20_Witness ==
    /\ Formatted
    /\ local.result = [topic |-> "Launch Plan", summary |-> "Team decided to ship Friday.",
                       actionItems |-> <<"Update changelog", "Notify support">>]
    /\ Includes(local.text, "2")

----------------------------------------------------------------------------
(* C21: whenever the error a trigger's catch block receives is an Error    *)
(* whose message contains "not_in_channel", every notice the error path    *)
(* sends to the requester carries the guidance to use the /invite command. *)
SomeCallFailed == \E i \in DOMAIN calls : calls[i].res = "fail"

\* the call whose failure entered the catch block
FirstFailed ==
    CHOOSE i \in DOMAIN calls :
        calls[i].res = "fail" /\ \A j \in DOMAIN calls : calls[j].res = "fail" => i <= j

CaughtNotInChannel ==
    /\ trigger \in {"shortcut", "command"}
    /\ SomeCallFailed
    /\ local.error.isError
    /\ Includes(local.error.message, "not_in_channel")

----------------------------------------------------------------------------
(* C22: for both triggers, a caught Error whose message contains           *)
(* "invalid_auth" produces the authentication notice and one whose message *)
(* contains "missing_scope" produces the reinstall-with-scopes notice; in  *)
(* neither case is the notice the generic 'Error: <message>' text.         *)
CaughtWith(sub) ==
    /\ trigger \in {"shortcut", "command"}
    /\ SomeCallFailed
    /\ local.error.isError
    /\ Includes(local.error.message, sub)
    /\ Len(calls) > FirstFailed

C22_AuthAndScopeNotices ==
    /\ CaughtWith("invalid_auth") =>
          /\ calls[FirstFailed + 1].text
                 = <<"Authentication failed. Please check the bot token or reinstall the app.">>
          /\ Head(calls[FirstFailed + 1].text) /= "Error: "
    /\ CaughtWith("missing_scope") =>
          /\ calls[FirstFailed + 1].text
                 = <<"The bot is missing required permissions. Please reinstall the app with all required scopes.">>
          /\ Head(calls[FirstFailed + 1].text) /= "Error: "

----------------------------------------------------------------------------
(* C23: a request whose body has type url_verification is answered with    *)
(* exactly its challenge value as the whole response body, and nothing     *)
(* after the first middleware runs for it: no later middleware or route,   *)
(* no signature-checked receiver, no listener, no external call.           *)

VerificationRequested == trigger = "request" /\ IsUrlVerification(req)

C23_ChallengeEchoedAndNothingElseRuns ==
    VerificationRequested =>
        /\ pc \in {"use62", "done"}
        /\ handler = "idle"
        /\ calls = <<>>
        /\ pc = "done" =>
             /\ res.sent
             /\ res.body = req.body.challenge
             /\ logged = <<"Fast-tracking URL verification">>

C23_Witness ==
    /\ VerificationRequested
    /\ req.method = "POST" /\ req.path = "/slack/events" /\ ~req.signed
    /\ pc = "done"
    /\ res.body = "c2"

----------------------------------------------------------------------------
(* C24: no external operation is retried within a trigger: whatever fails, *)
(* the completion API is called at most once, chat.postMessage at most     *)
(* once, and the thread fetch, the window fetch and the single-message     *)
(* fetch at most once each.                                                *)

IsSingleFetch(c) == c.op = "conversations.history" /\ c.oldest = NoTime

IssuedCompletions == {i \in DOMAIN calls : IsCompletion(calls[i])}
IssuedPublicPosts == {i \in DOMAIN calls : IsPublicPost(calls[i])}
IssuedThreadFetches == {i \in DOMAIN calls : IsReplies(calls[i])}
IssuedWindowFetches == {i \in DOMAIN calls : IsWindowFetch(calls[i])}
IssuedSingleFetches == {i \in DOMAIN calls : IsSingleFetch(calls[i])}

C24_NothingRetried ==
    trigger \in {"shortcut", "command"} =>
        /\ Cardinality(IssuedCompletions) <= 1
        /\ Cardinality(IssuedPublicPosts) <= 1
        /\ Cardinality(IssuedThreadFetches) <= 1
        /\ Cardinality(IssuedWindowFetches) <= 1
        /\ Cardinality(IssuedSingleFetches) <= 1

C24_Witness ==
    /\ trigger = "command"
    /\ TaskEnded
    /\ IssuedWindowFetches /= {}
    /\ \E i \in IssuedCompletions : calls[i].res = "fail"
    /\ PrivateNotice(Last) /\ Last.res = "ok"

----------------------------------------------------------------------------
(* C25: within the background task of a trigger at most one external call  *)
(* is outstanding at any time, and the calls are issued in program order,  *)
(* each after the one before it completed.  The slash command: loading     *)
(* notice, channel lookup (if a name was given), progress notice, timezone *)
(* lookup, window fetch, channel info, completion call, public post,       *)
(* success notice.  The shortcut: loading notice, thread fetch,            *)
(* single-message fetch (if needed), completion call, public post, success *)
(* notice.                                                                 *)

\* the place of a call in the order above, 0 for a call that is not in it
CommandStep(c) ==
    CASE c.op = "respond" /\ c.text = CommandLoadingText -> 1
      [] c.op = "conversations.list" -> 2
      [] c.op = "respond" /\ c.text = CommandProgressText -> 3
      [] c.op = "users.info" -> 4
      [] IsWindowFetch(c) -> 5
      [] c.op = "conversations.info" -> 6
      [] IsCompletion(c) -> 7
      [] IsPublicPost(c) -> 8
      [] c.op = "respond" /\ c.text = CommandSuccessText(local.channelName) -> 9
      [] OTHER -> 0

ShortcutStep(c) ==
    CASE c.op = "chat.postEphemeral" /\ c.text = ShortcutLoadingText -> 1
      [] IsReplies(c) -> 2
      [] IsSingleFetch(c) -> 3
      [] IsCompletion(c) -> 4
      [] IsPublicPost(c) -> 5
      [] c.op = "chat.postEphemeral" /\ c.text = ShortcutSuccessText -> 6
      [] OTHER -> 0

Step(c) == IF trigger = "command" THEN CommandStep(c) ELSE ShortcutStep(c)

C25_OneCallAtATimeInOrder ==
    trigger \in {"shortcut", "command"} =>
        /\ \A i \in DOMAIN calls : calls[i].res = "pending" => i = Len(calls)
        /\ \A i, j \in DOMAIN calls :
             (i < j /\ Step(calls[i]) > 0 /\ Step(calls[j]) > 0)
                 => Step(calls[i]) < Step(calls[j])

C25_Witness ==
    /\ trigger = "command"
    /\ TaskEnded
    /\ Len(calls) = 10
    /\ \A s \in 1..9 : Step(calls[s + 1]) = s /\ calls[s + 1].res = "ok"

----------------------------------------------------------------------------
(* Two triggers handled by the same process                                *)
(*                                                                         *)
(* PairSpec follows two triggers whose background tasks overlap.  The      *)
(* process runs one task at a time and can change task wherever the        *)
(* running one is suspended at an await, that is in every state: the       *)
(* variables hold the task that runs next, other the suspended one.        *)
(* Everything a task reads or writes is a parameter or a const/let of its  *)
(* handler (actions.ts 30-58, commands.ts 17-27); the services keep        *)
(* nothing but their clients (slack.service.ts 14-18, openai.service.ts    *)
(* 5-9) and NODE_ENV belongs to the process.                               *)

Paired == other.trigger /= NoVal

\* the invocation the variables hold
Invocation ==
    [trigger |-> trigger, shortcut |-> shortcut, command |-> command, pc |-> pc,
     handler |-> handler, task |-> task, calls |-> calls, local |-> local,
     logged |-> logged]

\* locals kept in one place for every invocation instead of in the closure
SwitchSharingLocals ==
    /\ Paired
    /\ other' = Invocation
    /\ trigger' = other.trigger
    /\ shortcut' = other.shortcut
    /\ command' = other.command
    /\ pc' = other.pc
    /\ handler' = other.handler
    /\ task' = other.task
    /\ calls' = other.calls
    /\ logged' = other.logged
    /\ UNCHANGED <<req, res, nodeEnv, local>>

\* the event loop runs the other task
Switch ==
    /\ Paired
    /\ other' = Invocation
    /\ trigger' = other.trigger
    /\ shortcut' = other.shortcut
    /\ command' = other.command
    /\ pc' = other.pc
    /\ handler' = other.handler
    /\ task' = other.task
    /\ calls' = other.calls
    /\ local' = other.local
    /\ logged' = other.logged
    /\ UNCHANGED <<req, res, nodeEnv>>

\* the two triggers: the first comes from U1 in C1, the second from U2 in C2
PairShortcuts(channel, user) ==
    [type : {"message_action"}, channel : {channel}, user : {user}, ts : {MessageTs},
     thread_ts : {NoVal, "1.0"}, text : {NoVal, "hello"}]
PairCommands(channel, user) ==
    [text : {<<>>, <<"g">>}, channel_id : {channel}, user_id : {user}]

\* the invocations of one user in one channel, before their handlers run
PairInvocations(channel, user) ==
    {[trigger |-> "shortcut", shortcut |-> s, command |-> NoCommand, pc |-> "idle",
      handler |-> "idle", task |-> "notstarted", calls |-> <<>>, local |-> InitLocal,
      logged |-> <<>>] : s \in PairShortcuts(channel, user)}
    \cup {[trigger |-> "command", shortcut |-> NoShortcut, command |-> c, pc |-> "idle",
           handler |-> "idle", task |-> "notstarted", calls |-> <<>>, local |-> InitLocal,
           logged |-> <<>>] : c \in PairCommands(channel, user)}

\* the results the platform gives the two triggers: a call succeeds or is rejected
\* with one error, a fetch returns at most one message, a listing at most one channel
PairMessageLists == {<<>>, <<Message("")>>, <<Message("a")>>, <<Message("b")>>}
PairEnvironment ==
    /\ local.error \in {NoError, Err(<<"boom">>)}
    /\ local.threadMessages \in PairMessageLists
    /\ local.messages \in PairMessageLists
    /\ local.history.messages \in PairMessageLists
    /\ local.response.content \in {NoContent, NotJsonContent,
                                   JsonContent("Launch Plan", "Team decided to ship Friday.",
                                               <<"Update changelog", "Notify support">>)}
    /\ local.userInfo \in {NoUserInfo,
                           [threw |-> FALSE, ok |-> TRUE, hasUser |-> TRUE, tz_offset |-> 19800]}
    /\ local.processTz = 0
    /\ Len(local.channels) <= 1

\* a step of the running task, in that environment
Bounded(A) == A /\ PairEnvironment'

PairInit ==
    /\ other \in PairInvocations(ChannelC2, "U2")
    /\ req = NoRequest
    /\ res = NoReply
    /\ \E first \in PairInvocations(ChannelC1, "U1") :
         /\ trigger = first.trigger
         /\ shortcut = first.shortcut
         /\ command = first.command
    /\ nodeEnv = "production"
    /\ pc = "idle"
    /\ handler = "idle"
    /\ task = "notstarted"
    /\ calls = <<>>
    /\ local = InitLocal
    /\ logged = <<>>

PairNext ==
    \/ Bounded(CommandInvoke)
    \/ Bounded(CommandAcked)
    \/ Bounded(CommandLoadingSent)
    \/ Bounded(CommandChannelsListed)
    \/ Bounded(CommandNotFoundSent)
    \/ Bounded(CommandProgressSent)
    \/ Bounded(CommandTimezoneFetched)
    \/ Bounded(CommandHistoryFetched)
    \/ Bounded(CommandNoMessagesSent)
    \/ Bounded(CommandInfoFetched)
    \/ Bounded(CommandSummaryGenerated)
    \/ Bounded(CommandPosted)
    \/ Bounded(CommandSuccessNotified)
    \/ Bounded(CommandErrorResponded)
    \/ Bounded(CommandFallbackSent)
    \/ Bounded(ShortcutInvoke)
    \/ Bounded(ShortcutAcked)
    \/ Bounded(ShortcutLoadingSent)
    \/ Bounded(ShortcutThreadFetched)
    \/ Bounded(ShortcutParentChecked)
    \/ Bounded(ShortcutHistoryFetched)
    \/ Bounded(ShortcutNoContentSent)
    \/ Bounded(ShortcutSummaryGenerated)
    \/ Bounded(ShortcutPosted)
    \/ Bounded(ShortcutSuccessNotified)
    \/ Bounded(ShortcutErrorNotified)
    \/ Switch

PairSpec == PairInit /\ [][PairNext]_vars

----------------------------------------------------------------------------
(* C26: two triggers handled concurrently are independent.  Under every    *)
(* interleaving of their calls, the text batch, the reply target, the      *)
(* posted summary and the notices of each trigger are those its own        *)
(* payload and the results of its own calls determine, whatever the other  *)
(* trigger did in between.                                                 *)

OwnUser(v) == IF v.trigger = "shortcut" THEN v.shortcut.user ELSE v.command.user_id
OwnChannel(v) == IF v.trigger = "shortcut" THEN v.shortcut.channel ELSE v.command.channel_id
\* the channel the trigger summarizes
OwnTarget(v) == IF v.trigger = "shortcut" THEN v.shortcut.channel ELSE v.local.targetChannel
\* the texts the trigger's own fetches gave it
OwnBatch(v) ==
    IF v.trigger = "shortcut" THEN v.local.messagesToSummarize
    ELSE extractMessageTexts(v.local.messages)
OwnSummary(v) ==
    (IF v.trigger = "shortcut" THEN v.local.summaryTitle
     ELSE getChannelSummaryHeader(v.local.channelName))
        \o formatSummaryResponse(v.local.result.topic, v.local.result.summary,
                                 v.local.result.actionItems)
OwnNotices(v) ==
    IF v.trigger = "shortcut"
    THEN {ShortcutLoadingText, NoContentText, ShortcutSuccessText,
          ShortcutErrorMessage(v.local.error)}
    ELSE {CommandLoadingText, CommandProgressText, NoMessagesText,
          ChannelNotFoundText(v.local.targetChannel),
          CommandSuccessText(v.local.channelName),
          formatErrorMessage(v.local.error, CommandDefaultErrorText),
          formatErrorMessage(v.local.error, CommandDefaultErrorText) \o FallbackSuffix}

DependsOnlyOnItself(v) ==
    \A i \in DOMAIN v.calls :
        LET c == v.calls[i] IN
        /\ c.user \in {NoVal, OwnUser(v)}
        /\ c.channel \in {NoChannel, OwnChannel(v), OwnTarget(v)}
        /\ c.op \in {"chat.postEphemeral", "respond"} =>
             /\ c.user = OwnUser(v)
             /\ c.channel = OwnChannel(v)
             /\ c.text \in OwnNotices(v)
        /\ IsCompletion(c) => c.text = OwnBatch(v)
        /\ IsPublicPost(c) =>
             /\ c.channel = OwnTarget(v)
             /\ c.ts = v.local.replyThreadTs
             /\ c.text = OwnSummary(v)

C26_TriggersIndependent ==
    Paired => DependsOnlyOnItself(Invocation) /\ DependsOnlyOnItself(other)

\* both tasks are under way, each waiting for a call of its own
C26_Witness ==
    /\ Paired
    /\ calls /= <<>>
    /\ other.calls /= <<>>
    /\ IsCompletion(Last) /\ Last.res = "pending"
    /\ IsPublicPost(other.calls[Len(other.calls)])
    /\ other.calls[Len(other.calls)].res = "pending"
    /\ Last.text /= <<>>
    /\ OwnBatch(other) /= OwnBatch(Invocation)

----------------------------------------------------------------------------
(* C27: if every external call eventually returns or fails, the background *)
(* task of every acknowledged trigger eventually terminates, in exactly    *)
(* one terminal outcome: success notice sent, no-content or                *)
(* channel-not-found notice sent, error notice sent, or notification       *)
(* failure logged.  No step leads back to an earlier one.                  *)

Acknowledged == calls /= <<>> /\ calls[1].op = "ack" /\ calls[1].res = "ok"

LastLogged == IF logged = <<>> THEN "" ELSE logged[Len(logged)]

\* the last thing the task did
SuccessNoticeSent ==
    /\ PrivateNotice(Last) /\ Last.res = "ok"
    /\ Last.text \in {ShortcutSuccessText, CommandSuccessText(local.channelName)}
NothingFoundNoticeSent ==
    /\ PrivateNotice(Last) /\ Last.res = "ok"
    /\ Last.text \in {NoContentText, NoMessagesText, ChannelNotFoundText(local.targetChannel)}
ErrorNoticeSent == ErrorNotice(Last) /\ Last.res = "ok"
NotificationFailureLogged ==
    /\ Last.res = "fail"
    /\ LastLogged \in {"Failed to send error notification:",
                       "All error notification attempts failed:"}

Outcomes ==
    {o \in {"success", "nothing found", "error", "failure logged"} :
        \/ o = "success" /\ SuccessNoticeSent
        \/ o = "nothing found" /\ NothingFoundNoticeSent
        \/ o = "error" /\ ErrorNoticeSent
        \/ o = "failure logged" /\ NotificationFailureLogged}

\* a step issues one more call or ends the task
StepsForward == Len(calls') > Len(calls) \/ (TaskEnded' /\ ~TaskEnded) \/ handler' /= handler

\* the weak fairness of Next is the assumption that every call is eventually settled
FairSpec == Spec /\ WF_vars(Next)

C27_TerminatesInOneOutcome ==
    /\ Acknowledged ~> TaskEnded
    /\ [](Acknowledged /\ TaskEnded => Cardinality(Outcomes) = 1)
    /\ [][StepsForward]_vars

(* C27, amended: as above for the slash command and the message-action     *)
(* shortcut; a summarize_thread shortcut that is not a message action      *)
(* terminates right after the acknowledgment with none of the four         *)
(* outcomes, having only logged 'This shortcut must be used on a message.' *)
OnlyLogged ==
    /\ Len(calls) = 1
    /\ logged = <<"This shortcut must be used on a message.">>

C27_TerminatesInOneOutcomeOrOnlyLogs ==
    /\ Acknowledged ~> TaskEnded
    /\ [](Acknowledged /\ TaskEnded =>
            IF NotMessageAction THEN Outcomes = {} /\ OnlyLogged
            ELSE Cardinality(Outcomes) = 1)
    /\ [][StepsForward]_vars

C27_Witness ==
    /\ trigger = "command"
    /\ Acknowledged
    /\ TaskEnded
    /\ Outcomes = {"failure logged"}
    /\ Len(SelectSeq(calls, LAMBDA c : c.res = "fail")) = 3

----------------------------------------------------------------------------
(* C28: a public summary is posted only where the conversation is: in the  *)
(* channel the summarized messages were fetched from and in no other; for  *)
(* a shortcut, as a reply in that channel to the root of the thread or to  *)
(* the selected message.                                                   *)

IsMessageFetch(c) == IsReplies(c) \/ IsSingleFetch(c) \/ IsWindowFetch(c)

PostedWhereFetched(p) ==
    /\ \E f \in 1..(p - 1) : IsMessageFetch(calls[f]) /\ calls[f].res = "ok"
    /\ \A f \in DOMAIN calls : IsMessageFetch(calls[f]) => calls[f].channel = calls[p].channel

RepliesToThreadOrMessage(p) ==
    /\ calls[p].channel = shortcut.channel
    /\ calls[p].ts = (IF shortcut.thread_ts /= NoVal THEN shortcut.thread_ts ELSE shortcut.ts)
    /\ calls[p].ts /= NoVal

C28_PostedOnlyWhereFetched ==
    trigger \in {"shortcut", "command"} =>
        \A p \in DOMAIN calls :
            IsPublicPost(calls[p]) =>
                /\ PostedWhereFetched(p)
                /\ trigger = "shortcut" => RepliesToThreadOrMessage(p)

\* a command naming another channel than the one it was typed in
C28_Witness ==
    /\ trigger = "command"
    /\ TaskEnded
    /\ \E p \in DOMAIN calls :
         /\ IsPublicPost(calls[p]) /\ calls[p].res = "ok"
         /\ calls[p].channel /= command.channel_id
         /\ \E f \in DOMAIN calls : IsWindowFetch(calls[f]) /\ calls[f].channel = calls[p].channel

----------------------------------------------------------------------------
(* C29: in the error path of the slash command the failure is reported to  *)
(* the requester only, best effort: the error notice is first sent through *)
(* respond as an ephemeral replacement of the loading notice; one fallback *)
(* ephemeral message to the invoking channel is attempted only if that     *)
(* send fails; if the fallback fails too the failure is logged and nothing *)
(* else is sent.                                                           *)

CommandErrorCaught == trigger = "command" /\ ErrorRaised /\ SomeCallFailed

\* the first call of the catch block
ErrorAt == FirstFailed + 1

CommandErrorText == formatErrorMessage(local.error, CommandDefaultErrorText)

C29_CommandErrorReportedBestEffort ==
    CommandErrorCaught =>
        /\ Len(calls) >= ErrorAt
        /\ calls[ErrorAt] = [Respond(CommandErrorText, "ephemeral_replace")
                                EXCEPT !.res = calls[ErrorAt].res]
        /\ PrivateNotice(calls[ErrorAt])
        /\ calls[ErrorAt].res = "pending" => Len(calls) = ErrorAt /\ ~TaskEnded
        /\ calls[ErrorAt].res = "ok" => Len(calls) = ErrorAt /\ TaskEnded
        /\ calls[ErrorAt].res = "fail" =>
             /\ Len(calls) = ErrorAt + 1
             /\ Last = [PostEphemeral(command.channel_id, command.user_id,
                                      CommandErrorText \o FallbackSuffix)
                           EXCEPT !.res = Last.res]
             /\ PrivateNotice(Last)
             /\ Last.res /= "pending" => TaskEnded
             /\ Last.res = "fail" => LastLogged = "All error notification attempts failed:"
             /\ Last.res = "ok" => LastLogged = "Failed to send error message:"

C29_Witness ==
    /\ CommandErrorCaught
    /\ TaskEnded
    /\ IsCompletion(calls[FirstFailed])
    /\ Len(calls) = ErrorAt + 1
    /\ calls[ErrorAt].res = "fail"
    /\ Last.res = "fail"
    /\ LastLogged = "All error notification attempts failed:"

----------------------------------------------------------------------------
(* C30: formatErrorMessage is a total first-match classification.  Every   *)
(* Error gets exactly one user message: that of the first test its message *)
(* passes, the tests being made in the order quota / rate limit,           *)
(* not_in_channel, not_authed / invalid_auth, missing_scope; when none     *)
(* passes, 'Error: ' followed by the raw message.  A value that is not an  *)
(* Error gets the default message.                                         *)

Classification ==
    <<[parts |-> {"quota", "rate limit"}, message |-> QuotaText],
      [parts |-> {"not_in_channel"}, message |-> NotInChannelText],
      [parts |-> {"not_authed", "invalid_auth"}, message |-> AuthFailedText],
      [parts |-> {"missing_scope"}, message |-> MissingScopeText]>>

Passes(k) == \E part \in Classification[k].parts : Includes(local.error.message, part)

ErrorClassified == trigger = "formatErrorMessage" /\ pc = "returned"

C30_FirstMatchClassification ==
    ErrorClassified =>
        IF ~local.error.isError THEN local.text = local.errorMessage
        ELSE /\ \A k \in DOMAIN Classification :
                  (Passes(k) /\ \A j \in 1..(k - 1) : ~Passes(j))
                      => local.text = Classification[k].message
             /\ (\A k \in DOMAIN Classification : ~Passes(k))
                      => local.text = <<"Error: ">> \o local.error.message

\* the message passes two tests, the later one on an earlier part
C30_Witness ==
    /\ ErrorClassified
    /\ local.error = Err(<<"missing_scope", "not_in_channel">>)
    /\ local.text = NotInChannelText

----------------------------------------------------------------------------
(* C31: in the shortcut, whenever the thread fetch or the single-message   *)
(* history fetch is rejected with an error containing "not_in_channel",    *)
(* the notice sent to the requester contains the prompt to invite the bot  *)
(* to the channel.                                                         *)

\* the error the failed fetch was rejected with: that of getThreadReplies reaches the
\* catch block as it is, that of conversations.history is kept with its result
UpstreamError(i) == IF IsReplies(calls[i]) THEN local.error ELSE local.history.err

GatheringRejected(i) ==
    /\ trigger = "shortcut"
    /\ IsReplies(calls[i]) \/ IsSingleFetch(calls[i])
    /\ calls[i].res = "fail"
    /\ UpstreamError(i).isError
    /\ Includes(UpstreamError(i).message, "not_in_channel")

C31_GatheringFailureGetsInvite ==
    \A i \in DOMAIN calls :
        GatheringRejected(i) =>
            /\ Len(calls) > i
            /\ PrivateNotice(calls[i + 1])
            /\ Includes(calls[i + 1].text, "/invite")

----------------------------------------------------------------------------
(* C32: for both triggers the success notice is sent only after the public *)
(* post has succeeded, and a trigger never delivers both a success notice  *)
(* and an error notice to the requester.                                   *)

IsSuccessNotice(c) ==
    /\ PrivateNotice(c)
    /\ c.text \in {ShortcutSuccessText, CommandSuccessText(local.channelName)}

C32_SuccessNoticeAfterPostOnly ==
    trigger \in {"shortcut", "command"} =>
        /\ \A i \in DOMAIN calls :
             IsSuccessNotice(calls[i]) =>
                 /\ i > 1
                 /\ IsPublicPost(calls[i - 1])
                 /\ calls[i - 1].res = "ok"
        /\ ~ \E i, j \in DOMAIN calls :
               /\ IsSuccessNotice(calls[i]) /\ calls[i].res = "ok"
               /\ ErrorNotice(calls[j]) /\ calls[j].res = "ok"

\* the success notice was rejected and the error notice went out in its place
C32_Witness ==
    /\ trigger = "shortcut"
    /\ TaskEnded
    /\ Len(calls) > 2
    /\ IsPublicPost(calls[Len(calls) - 2]) /\ calls[Len(calls) - 2].res = "ok"
    /\ IsSuccessNotice(calls[Len(calls) - 1]) /\ calls[Len(calls) - 1].res = "fail"
    /\ ErrorNotice(Last) /\ Last.res = "ok"

----------------------------------------------------------------------------
(* C33: the window fetch of the slash command asks for the messages from   *)
(* the most recent local midnight of the requester up to now: the start    *)
(* instant is on a day boundary of the requester's clock, not after now    *)
(* and less than 86400 seconds before it, and the request carries no upper *)
(* bound.                                                                  *)

CommandWindowRequested(i) == trigger = "command" /\ IsWindowFetch(calls[i])

StartsWithinTheLastDay(i) ==
    /\ calls[i].oldest <= local.now
    /\ local.now - calls[i].oldest < SecondsPerDay

\* the call has no latest parameter
OpenEnded(i) == calls[i].ts = NoVal

C33_WindowIsRequestersToday ==
    \A i \in DOMAIN calls :
        CommandWindowRequested(i) =>
            /\ (calls[i].oldest + local.tzOffset) % SecondsPerDay = 0
            /\ StartsWithinTheLastDay(i)
            /\ OpenEnded(i)

----------------------------------------------------------------------------
(* The text batch *)

\* the messages the last successful message fetch of the trigger returned
LastFetched ==
    IF trigger = "command" THEN local.messages
    ELSE IF HistoryReturned THEN local.history.messages
         ELSE local.threadMessages

\* the batch was built from a fetched list: a thread or a day's window
BatchFromList ==
    trigger = "command" \/ (trigger = "shortcut" /\ local.summaryTitle = ThreadSummaryTitle)

\* the text of the one message a standalone shortcut summarizes
SelectedMessageText ==
    IF Truthy(shortcut.text) THEN shortcut.text ELSE local.history.messages[1].text

(* C34, as stated: the text batch handed to generateSummary is exactly the *)
(* texts of the fetched messages, in the order they were returned, without *)
(* the empty ones; nothing is reordered, deduplicated or added.            *)
C34_BatchIsFetchedTexts ==
    \A i \in DOMAIN calls :
        IsCompletion(calls[i]) => calls[i].text = TextsOf(LastFetched)

(* C34, amended: a batch built for a thread or for a day's window is       *)
(* exactly the non-empty texts of the fetched messages in the order they   *)
(* were returned; the batch of a standalone message is that one message's  *)
(* text, taken from the payload when the payload carries it and from the   *)
(* first fetched history message otherwise.                                *)
C34_BatchIsFetchedTextsOrSelectedText ==
    \A i \in DOMAIN calls :
        IsCompletion(calls[i]) =>
            IF BatchFromList THEN calls[i].text = TextsOf(LastFetched)
            ELSE calls[i].text = <<SelectedMessageText>>

\* a window of two messages with the same text is summarized as two texts
C34_Witness ==
    /\ trigger = "command"
    /\ Len(local.messages) = 2
    /\ local.messages[1].text = "b"
    /\ local.messages[2].text = "b"
    /\ \E i \in DOMAIN calls : IsCompletion(calls[i]) /\ calls[i].text = <<"b", "b">>

----------------------------------------------------------------------------
(* A loading notice that fails *)

IsLoadingNotice(c) == PrivateNotice(c) /\ c.text \in {ShortcutLoadingText, CommandLoadingText}

\* the first call of the background task is the loading notice, and it was rejected
LoadingNoticeFailed ==
    Len(calls) >= 2 /\ IsLoadingNotice(calls[2]) /\ calls[2].res = "fail"

(* C35: when the initial loading notice fails the request is aborted       *)
(* before any message fetch: no thread or window fetch, no completion call *)
(* and no public post is made for the trigger, and the call after the      *)
(* failed notice is the error notification.                                *)
C35_FailedLoadingNoticeAborts ==
    LoadingNoticeFailed =>
        /\ \A i \in DOMAIN calls :
               ~IsFetch(calls[i]) /\ ~IsCompletion(calls[i]) /\ ~IsPublicPost(calls[i])
        /\ Len(calls) >= 3
        /\ ErrorNotice(calls[3])
        /\ \A i \in 3..Len(calls) : ErrorNotice(calls[i])

\* the shortcut's loading notice was rejected and the error notice went out
C35_Witness ==
    /\ trigger = "shortcut"
    /\ LoadingNoticeFailed
    /\ TaskEnded
    /\ Len(calls) = 3
    /\ calls[3].res = "ok"

----------------------------------------------------------------------------
(* A shortcut that is not a message action *)

DroppedLog == "This shortcut must be used on a message."

(* C36: a summarize_thread shortcut whose type is not message_action is    *)
(* acknowledged and then dropped: the acknowledgement is the only call of  *)
(* its trace (no notice, no fetch, no completion call, no post), no error  *)
(* is raised, and once acknowledged the task has ended having written one  *)
(* log line.                                                               *)
C36_NonMessageShortcutDropped ==
    NotMessageAction =>
        /\ \A i \in DOMAIN calls : ~IsWork(calls[i])
        /\ Len(calls) <= 1
        /\ ~ErrorRaised
        /\ Acknowledged => (task = "done" /\ logged = <<DroppedLog>>)
        /\ ~Acknowledged => logged = <<>>

\* a global shortcut was acknowledged and its task has ended
C36_Witness ==
    /\ NotMessageAction
    /\ Acknowledged
    /\ handler = "returned"
    /\ pc = "done"
    /\ logged = <<DroppedLog>>

----------------------------------------------------------------------------
(* An argument that starts with 'C' *)

\* the argument, trimmed and without one leading '#', starts with the letter C
IdShapedArgument ==
    /\ trigger = "command"
    /\ ArgumentName /= <<>>
    /\ ArgumentName[1] = "C"

(* C37: in the slash command an argument that, after trimming and          *)
(* stripping one leading '#', starts with the letter 'C' is used verbatim  *)
(* as the channel id: the channel list is never requested, no name is      *)
(* matched, and the channel is looked up, fetched and posted to under that *)
(* very text, even when the argument is a channel name.                    *)
C37_IdShapedArgumentUsedVerbatim ==
    IdShapedArgument =>
        /\ \A i \in DOMAIN calls : ~IsListing(calls[i])
        /\ ~ChannelNotFound
        /\ ArgumentParsed =>
              /\ local.targetChannel = ArgumentName
              /\ calls[3] = [Respond(CommandProgressText, "ephemeral_replace")
                                EXCEPT !.res = calls[3].res]
        /\ \A i \in DOMAIN calls :
               (IsFetch(calls[i]) \/ IsPublicPost(calls[i])) => calls[i].channel = ArgumentName

\* the name Cg was taken for an id: its window was fetched without a listing
C37_Witness ==
    /\ IdShapedArgument
    /\ command.text = <<"C", "g">>
    /\ \E i \in DOMAIN calls :
          IsWindowFetch(calls[i]) /\ calls[i].channel = <<"C", "g">> /\ calls[i].res = "ok"

----------------------------------------------------------------------------
(* A channel listing that fails *)

ListingFailureLogs ==
    {"Error listing channels (development environment):", "Error listing channels:"}

\* conversations.list was rejected upstream: listChannels logged it
ListingRejected == \E k \in DOMAIN logged : logged[k] \in ListingFailureLogs

(* C38: listChannels propagates an upstream failure only when NODE_ENV is  *)
(* production, where the command goes to its error notice; in any other    *)
(* environment it returns an empty list, the route sees the call succeed,  *)
(* and the command goes on to the 'Channel ... not found' notice instead   *)
(* of an error notice.                                                     *)
C38_ListingFailurePropagatesInProductionOnly ==
    \A i \in DOMAIN calls :
        IsListing(calls[i]) =>
            /\ calls[i].res = "fail" => (nodeEnv = "production" /\ ListingRejected)
            /\ ListingRejected =>
                  /\ Len(calls) > i
                  /\ IF nodeEnv = "production"
                     THEN /\ calls[i].res = "fail"
                          /\ ErrorNotice(calls[i + 1])
                          /\ ~ChannelNotFound
                     ELSE /\ calls[i].res = "ok"
                          /\ local.channels = <<>>
                          /\ NotFoundNotice(calls[i + 1])
                          /\ ChannelNotFound
                          /\ ErrorRaised => calls[i + 1].res = "fail"

\* outside production a rejected listing ended in the not-found notice
C38_Witness ==
    /\ trigger = "command"
    /\ nodeEnv = "development"
    /\ ListingRejected
    /\ TaskEnded
    /\ ~ErrorRaised
    /\ NotFoundNotice(Last)
    /\ Last.res = "ok"

====
